---- MODULE Spec2Model ----
(***************************************************************************)
(* linuxgamebench: the benchmark, record and record_manual commands of     *)
(* linux_game_benchmark/cli.py and the fingerprinted store they drive.     *)
(*                                                                         *)
(* Spec       one invocation of a command, from its entry to its exit.     *)
(* SpecStore  the store's interface called in any order.                   *)
(***************************************************************************)
EXTENDS Integers, Sequences, FiniteSets, TLC

(***************************************************************************)
(* Bounds of the model.                                                    *)
(***************************************************************************)
\* trace files 1..MaxLogs the capture tool may write in the recording directory
MaxLogs == 2
\* iterations a benchmark session may hold in session.results
MaxResults == 3
\* interface calls of one behaviour of SpecStore
MaxCalls == 4

(***************************************************************************)
(* Program constants.                                                      *)
(***************************************************************************)
\* cli.py:996, cli.py:1469  "size1 > 1000"
MinSize == 1000

Games == {"g1", "g2"}
Fingerprints == {"fpA", "fpB"}
NoFp == "none"
\* resolution_map of the three commands (cli.py:530-534, 1026, 1560)
Canonical == {"1920x1080", "2560x1440", "3840x2160"}
\* what the user may type at a resolution prompt: "0" to skip, two of the
\* menu entries, and "9" for any entry the menu does not list
Choices == {"0", "1", "2", "9"}

\* A stored run: the metrics record of one trace. `src` is the trace the
\* metrics were derived from: a result index of the benchmark session, a trace
\* file of a recording session, 0 for a run present before the invocation.
OldRun == [src |-> 0]
Run(n) == [src |-> n]

EmptyMap == [r \in {} |-> <<>>]

VARIABLES
    \* ---- the store (benchmark/storage.py)
    fpSaved,        \* game -> fingerprint last saved, or NoFp
    groups,         \* game -> (resolution -> sequence of runs), the live groups
    archives,       \* game -> sequence of archived snapshots of groups[game]
    \* ---- the invocation
    cmd,            \* "benchmark" | "record" | "record_manual" | "store"
    pc,             \* position in the command
    curFp,          \* SystemFingerprint.from_system_info(system_info)
    target,         \* target_game["app_id"] of benchmark and record
    input,          \* what the command reads: files, arguments, the answer to a prompt
    exitCode,       \* process exit status once pc = "exited"
    pending,        \* exception in flight through the finally block
    cancelled,      \* a KeyboardInterrupt was caught by the command
    \* ---- shared capture-tool configuration and Steam launch options
    mangoCfg,       \* "orig" | "bench"
    launchOpts,     \* "orig" | "bench"
    restoreLog,     \* restoration steps executed, in order
    \* ---- the recording directory (written by the capture tool)
    files,          \* names present
    fileSize,       \* name -> size in bytes
    \* ---- record / record_manual locals
    processed_logs,
    todo,           \* files get_new_logs has still to visit in this call
    size1,          \* first size sample of the file being visited
    visiting,       \* the file being visited, 0 when none
    new_logs,       \* result of get_new_logs, then the rest of the for loop
    log_path,       \* the trace process_log works on, 0 when none
    chosen,         \* record_manual: the game the finder returned for log_path
    resolution,     \* resolution chosen for log_path / selected_resolution
    user_requested_stop,
    recording_count,
    game_reports,
    afterLoop,      \* the monitoring loop has ended (cli.py:1128-1134)
    \* ---- benchmark locals
    results,        \* session.results
    ri,             \* index of the for loop over session.results
    \* ---- history
    events          \* calls made to the store, the analyzer and the report

storeVars == <<fpSaved, groups, archives>>
constVars == <<cmd, curFp, target, input>>
ctlVars == <<pc, exitCode, pending, cancelled>>
cliVars == <<constVars, ctlVars>>
toolVars == <<mangoCfg, launchOpts, restoreLog>>
dirVars == <<files, fileSize>>
scanVars == <<todo, size1, visiting, new_logs>>
procVars == <<log_path, chosen, resolution>>
sessVars == <<processed_logs, user_requested_stop, recording_count,
              game_reports, afterLoop>>
recVars == <<scanVars, procVars, sessVars>>
benchVars == <<results, ri>>
histVars == <<events>>
vars == <<storeVars, cliVars, toolVars, dirVars, recVars, benchVars, histVars>>

(***************************************************************************)
(* The store: benchmark/storage.py is not part of the sources at hand; its *)
(* operations follow section 4.3 of the specification.                     *)
(***************************************************************************)
\* check_fingerprint(game, fp) -> bool
check_fingerprint(g, fp) == fpSaved[g] = NoFp \/ fpSaved[g] = fp

\* get_all_resolutions(game) -> mapping resolution -> ordered runs
get_all_resolutions(g) == groups[g]

\* archive_old_data(game): the location it returns, 0 for none
archive_location(g) ==
    IF DOMAIN groups[g] = {} THEN 0 ELSE Len(archives[g]) + 1

\* archives after archive_old_data(game)
archive_archives(g) ==
    IF DOMAIN groups[g] = {} THEN archives
    ELSE [archives EXCEPT ![g] = Append(@, groups[g])]

\* live groups after archive_old_data(game)
archive_groups_keep(g) == groups
archive_groups(g) == [groups EXCEPT ![g] = EmptyMap]

\* fingerprints after save_fingerprint(game, fp, hw_info)
save_fingerprint_first_only(g, fp) ==
    IF fpSaved[g] = NoFp THEN [fpSaved EXCEPT ![g] = fp] ELSE fpSaved
save_fingerprint(g, fp) == [fpSaved EXCEPT ![g] = fp]

\* live groups after save_run(game, resolution, metrics, ...)
save_run(g, res, run) ==
    [groups EXCEPT ![g] =
        IF res \in DOMAIN @
        THEN [@ EXCEPT ![res] = Append(@, run)]
        ELSE @ @@ (res :> <<run>>)]

\* the archived data found at a location archive_old_data returned
archived_at(g, loc) == archives[g][loc]

(***************************************************************************)
(* History of calls: one record per call, in call order.                   *)
(***************************************************************************)
EvCheck(g, fp, r) == [op |-> "check", game |-> g, fp |-> fp, result |-> r]
EvArchive(g, loc, data) == [op |-> "archive", game |-> g, loc |-> loc, data |-> data]
EvSaveFp(g, fp) == [op |-> "savefp", game |-> g, fp |-> fp]
EvSaveRun(g, res, run) == [op |-> "saverun", game |-> g, res |-> res, run |-> run]
EvAnalyze(f, ok) == [op |-> "analyze", log |-> f, ok |-> ok]
EvReport(g) == [op |-> "report", game |-> g]
EvLaunch(outcome) == [op |-> "launch", outcome |-> outcome]
\* a call to the store that raised instead of returning
EvRaise(call, g) == [op |-> "raise", call |-> call, game |-> g]

(***************************************************************************)
(* Values of the variables a specification does not use.                   *)
(***************************************************************************)
IdleTool ==
    /\ mangoCfg = "orig" /\ launchOpts = "orig" /\ restoreLog = <<>>
IdleDir ==
    /\ files = {} /\ fileSize = [f \in 1..(MaxLogs + 1) |-> 0]
IdleRec ==
    /\ processed_logs = {} /\ todo = {} /\ size1 = 0 /\ visiting = 0
    /\ new_logs = {} /\ log_path = 0 /\ chosen = "none" /\ resolution = "none"
    /\ user_requested_stop = FALSE /\ recording_count = 0
    /\ game_reports = {} /\ afterLoop = FALSE
IdleBench ==
    /\ results = <<>> /\ ri = 0

(***************************************************************************)
(* SpecStore: the store's interface, called in any order with any          *)
(* arguments, starting from an empty store.                                *)
(***************************************************************************)
StoreInit ==
    /\ fpSaved = [g \in Games |-> NoFp]
    /\ groups = [g \in Games |-> EmptyMap]
    /\ archives = [g \in Games |-> <<>>]
    /\ cmd = "store" /\ pc = "store" /\ curFp = "fpA" /\ target = "g1"
    /\ input = "none"
    /\ exitCode = 0 /\ pending = "none" /\ cancelled = FALSE
    /\ IdleTool /\ IdleDir /\ IdleRec /\ IdleBench
    /\ events = <<>>

StoreFrame == UNCHANGED <<cliVars, toolVars, dirVars, recVars, benchVars>>

StoreCheck(g, fp) ==
    /\ Len(events) < MaxCalls
    /\ events' = Append(events, EvCheck(g, fp, check_fingerprint(g, fp)))
    /\ UNCHANGED storeVars /\ StoreFrame

StoreArchive(g) ==
    /\ Len(events) < MaxCalls
    /\ archives' = archive_archives(g)
    /\ groups' = archive_groups(g)
    /\ events' = Append(events, EvArchive(g, archive_location(g), groups[g]))
    /\ UNCHANGED fpSaved /\ StoreFrame

StoreSaveFp(g, fp) ==
    /\ Len(events) < MaxCalls
    /\ fpSaved' = save_fingerprint(g, fp)
    /\ events' = Append(events, EvSaveFp(g, fp))
    /\ UNCHANGED <<groups, archives>> /\ StoreFrame

StoreSaveRun(g, res, n) ==
    /\ Len(events) < MaxCalls
    /\ groups' = save_run(g, res, Run(n))
    /\ events' = Append(events, EvSaveRun(g, res, Run(n)))
    /\ UNCHANGED <<fpSaved, archives>> /\ StoreFrame

StoreNext ==
    \/ \E g \in Games, fp \in Fingerprints : StoreCheck(g, fp)
    \/ \E g \in Games : StoreArchive(g)
    \/ \E g \in Games, fp \in Fingerprints : StoreSaveFp(g, fp)
    \/ \E g \in Games, res \in {"1920x1080", "2560x1440"}, n \in 1..2 :
          StoreSaveRun(g, res, n)

SpecStore == StoreInit /\ [][StoreNext]_vars

(***************************************************************************)
(* Spec: one invocation of benchmark, record or record_manual.             *)
(***************************************************************************)
\* a variant that keys a run under whatever was entered
ResolutionOf_asEntered(choice) ==
    CASE choice = "1" -> "1920x1080"
      [] choice = "2" -> "2560x1440"
      [] choice = "3" -> "3840x2160"
      [] OTHER -> choice

\* resolution_map.get(choice, "1920x1080")
ResolutionOf(choice) ==
    CASE choice = "1" -> "1920x1080"
      [] choice = "2" -> "2560x1440"
      [] choice = "3" -> "3840x2160"
      [] OTHER -> "1920x1080"

\* What the store may hold for one game when a command starts: nothing, a
\* fingerprint without runs (every run was discarded), a fingerprint and a run.
Priors ==
    {[fp |-> NoFp, runs |-> EmptyMap]} \cup
    {[fp |-> fp, runs |-> m] :
        fp \in Fingerprints, m \in {EmptyMap, ("1920x1080" :> <<OldRun>>)}}

\* The store when a command starts. The command runs on hardware "fpA"; a
\* stored "fpB" is the fingerprint of any earlier hardware.
InitStore(others) ==
    \E prior \in [Games -> Priors] :
        /\ \A g \in Games \ {"g1"} : prior[g] \in others
        /\ fpSaved = [g \in Games |-> prior[g].fp]
        /\ groups = [g \in Games |-> prior[g].runs]
        /\ archives = [g \in Games |-> <<>>]

InitCommand(c, start) ==
    /\ cmd = c /\ pc = start /\ curFp = "fpA" /\ target = "g1"
    /\ input = "none"
    /\ exitCode = 0 /\ pending = "none" /\ cancelled = FALSE
    /\ events = <<>>

\* the process ends with exit status `code`
Exit(code) == pc' = "exited" /\ exitCode' = code
Goto(label) == pc' = label /\ UNCHANGED exitCode

\* the calls a command makes to the store, each logged in `events`
CallCheck(g) ==
    /\ events' = Append(events, EvCheck(g, curFp, check_fingerprint(g, curFp)))
    /\ UNCHANGED storeVars
CallArchive(g) ==
    /\ archives' = archive_archives(g)
    /\ groups' = archive_groups(g)
    /\ events' = Append(events, EvArchive(g, archive_location(g), groups[g]))
    /\ UNCHANGED fpSaved
CallSaveFp(g) ==
    /\ fpSaved' = save_fingerprint(g, curFp)
    /\ events' = Append(events, EvSaveFp(g, curFp))
    /\ UNCHANGED <<groups, archives>>
CallSaveRun(g, res, run) ==
    /\ groups' = save_run(g, res, run)
    /\ events' = Append(events, EvSaveRun(g, res, run))
    /\ UNCHANGED <<fpSaved, archives>>
CallRaises(call, g) ==
    /\ events' = Append(events, EvRaise(call, g))
    /\ UNCHANGED storeVars
\* all = get_all_resolutions(g); if all: aggregate_runs per resolution and
\* generate_multi_resolution_report
ReportEvents(gs) ==
    IF gs = {} THEN <<>>
    ELSE LET RECURSIVE Rep(_)
             Rep(S) == IF S = {} THEN <<>>
                       ELSE LET g == CHOOSE x \in S : TRUE
                            IN  (IF DOMAIN get_all_resolutions(g) # {}
                                 THEN <<EvReport(g)>> ELSE <<>>) \o Rep(S \ {g})
         IN Rep(gs)
CallReport(gs) ==
    /\ events' = events \o ReportEvents(gs)
    /\ UNCHANGED storeVars

\* if not storage.check_fingerprint(...): storage.archive_old_data(...)
\* where the command goes after the check: to the archive, or past it
AfterCheck_inverted(matches, archivePc, savePc) ==
    IF matches THEN archivePc ELSE savePc
AfterCheck(matches, archivePc, savePc) ==
    IF matches THEN savePc ELSE archivePc

(***************************************************************************)
(* benchmark (cli.py:406-705)                                              *)
(***************************************************************************)
BenchInit ==
    /\ InitStore({[fp |-> NoFp, runs |-> EmptyMap]})
    /\ InitCommand("benchmark", "b_start")
    /\ IdleTool /\ IdleDir /\ IdleRec /\ IdleBench

BenchFrame == UNCHANGED <<constVars, toolVars, dirVars, scanVars, sessVars,
                          log_path, chosen>>

\* MangoHud installed, library scanned, game found, requirements met; each
\* failure exits with status 1 before anything is run
BenchPreflight(ok) ==
    /\ pc = "b_start"
    /\ IF ok THEN Goto("b_run") ELSE Exit(1)
    /\ UNCHANGED <<storeVars, pending, cancelled, resolution, benchVars, histVars>>
    /\ BenchFrame

\* runner.run(config), one iteration: a warmup or a measured run, whose trace
\* was analyzed (metrics) or not
RunnerIteration(w, m) ==
    /\ pc = "b_run"
    /\ Len(results) < MaxResults
    /\ results' = Append(results, [is_warmup |-> w, metrics |-> m])
    /\ UNCHANGED <<storeVars, ctlVars, resolution, ri, histVars>>
    /\ BenchFrame

\* session = runner.run(config) returns
RunnerReturn ==
    /\ pc = "b_run"
    /\ Goto("b_prompt")
    /\ UNCHANGED <<storeVars, pending, cancelled, resolution, benchVars, histVars>>
    /\ BenchFrame

\* except KeyboardInterrupt: raise typer.Exit(1)
BenchInterrupted ==
    /\ pc = "b_run"
    /\ cancelled' = TRUE
    /\ Exit(1)
    /\ UNCHANGED <<storeVars, pending, resolution, benchVars, histVars>>
    /\ BenchFrame

\* except Exception: raise typer.Exit(1)
BenchFailed ==
    /\ pc = "b_run"
    /\ Exit(1)
    /\ UNCHANGED <<storeVars, pending, cancelled, resolution, benchVars, histVars>>
    /\ BenchFrame

\* if resolution_choice == "0": ... raise typer.Exit(0)
\* a variant in which no choice cancels
IsCancel_never(choice) == FALSE
IsCancel(choice) == choice = "0"

\* resolution_choice = typer.prompt("Choice", default="1"), kept in `input`:
\* "0" cancels, anything else selects a resolution
BenchPrompt(choice) ==
    /\ pc = "b_prompt"
    /\ input' = choice
    /\ IF IsCancel(choice)
       THEN Exit(0) /\ UNCHANGED resolution
       ELSE resolution' = ResolutionOf(choice) /\ Goto("b_check")
    /\ UNCHANGED <<storeVars, pending, cancelled, benchVars, histVars>>
    /\ UNCHANGED <<cmd, curFp, target, toolVars, dirVars, scanVars, sessVars,
                   log_path, chosen>>

\* if not storage.check_fingerprint(steam_app_id, current_fp): ...
\* (ok = FALSE: the call raises, nothing catches it)
BenchCheckFp(ok) ==
    /\ pc = "b_check"
    /\ IF ok
       THEN /\ CallCheck(target)
            /\ Goto(AfterCheck(check_fingerprint(target, curFp),
                               "b_archive", "b_savefp"))
       ELSE Exit(1) /\ CallRaises("check", target)
    /\ UNCHANGED <<pending, cancelled, resolution, benchVars>>
    /\ BenchFrame

\* archive_path = storage.archive_old_data(steam_app_id)
BenchArchive(ok) ==
    /\ pc = "b_archive"
    /\ IF ok
       THEN CallArchive(target) /\ Goto("b_savefp")
       ELSE Exit(1) /\ CallRaises("archive", target)
    /\ UNCHANGED <<pending, cancelled, resolution, benchVars>>
    /\ BenchFrame

\* storage.save_fingerprint(steam_app_id, current_fp, session.system_info)
BenchSaveFp(ok) ==
    /\ pc = "b_savefp"
    /\ IF ok
       THEN CallSaveFp(target) /\ Goto("b_registry")
       ELSE Exit(1) /\ CallRaises("savefp", target)
    /\ UNCHANGED <<pending, cancelled, resolution, benchVars>>
    /\ BenchFrame

\* registry.get_or_create(...), then the for loop over session.results starts
BenchRegister(ok) ==
    /\ pc = "b_registry"
    /\ IF ok
       THEN Goto("b_loop") /\ ri' = 1
       ELSE Exit(1) /\ UNCHANGED ri
    /\ UNCHANGED <<storeVars, pending, cancelled, resolution, results, histVars>>
    /\ BenchFrame

\* if not result.is_warmup and result.metrics
\* a variant that stores warmup results too
Storable_ignoringWarmup(result) == result.metrics
Storable(result) == ~result.is_warmup /\ result.metrics

\* one iteration of: for result in session.results (ok = FALSE: save_run raises)
BenchLoop(ok) ==
    /\ pc = "b_loop"
    /\ ri <= Len(results)
    /\ IF Storable(results[ri])
       THEN IF ok
            THEN /\ CallSaveRun(target, resolution, Run(ri))
                 /\ ri' = ri + 1
                 /\ UNCHANGED <<pc, exitCode>>
            ELSE Exit(1) /\ CallRaises("saverun", target) /\ UNCHANGED ri
       ELSE /\ ok
            /\ ri' = ri + 1
            /\ UNCHANGED <<storeVars, histVars, pc, exitCode>>
    /\ UNCHANGED <<pending, cancelled, resolution, results>>
    /\ BenchFrame

\* the loop is over: all_resolutions = storage.get_all_resolutions(...), the
\* report when it is not empty, the summary, and the command returns
BenchReport ==
    /\ pc = "b_loop"
    /\ ri > Len(results)
    /\ CallReport({target})
    /\ Exit(0)
    /\ UNCHANGED <<pending, cancelled, resolution, benchVars>>
    /\ BenchFrame

BenchNext ==
    \/ \E ok \in BOOLEAN : BenchPreflight(ok)
    \/ \E w \in BOOLEAN, m \in BOOLEAN : RunnerIteration(w, m)
    \/ RunnerReturn
    \/ BenchInterrupted
    \/ BenchFailed
    \/ \E choice \in Choices : BenchPrompt(choice)
    \/ \E ok \in BOOLEAN : BenchCheckFp(ok)
    \/ \E ok \in BOOLEAN : BenchArchive(ok)
    \/ \E ok \in BOOLEAN : BenchSaveFp(ok)
    \/ \E ok \in BOOLEAN : BenchRegister(ok)
    \/ \E ok \in BOOLEAN : BenchLoop(ok)
    \/ BenchReport

(***************************************************************************)
(* The recording directory. The capture tool writes trace files 1..MaxLogs *)
(* while the command waits; a trace grows in steps until it is complete.   *)
(* A "_summary" file of an earlier recording lies beside them.             *)
(***************************************************************************)
Logs == 1..MaxLogs
SummaryFile == MaxLogs + 1
AllFiles == 1..(MaxLogs + 1)
\* "_summary" in log_file.name
IsSummary(f) == f = SummaryFile
\* the sizes a trace goes through: at the floor of 1000 bytes, and above it
Sizes == {1000, 1500}

\* The directory when a command starts: the summary of an earlier recording,
\* and possibly the trace of one.
InitDir ==
    \E old \in SUBSET {1} :
        /\ files = old \cup {SummaryFile}
        /\ fileSize = [f \in AllFiles |->
                          IF f \in old \cup {SummaryFile} THEN 1500 ELSE 0]

\* the positions at which the command sleeps or is between two reads of the
\* directory
Waiting == pc \in {"glob", "sample", "sleep", "r_after"}

EnvFrame == UNCHANGED <<storeVars, cliVars, toolVars, recVars, benchVars, histVars>>

\* the capture tool starts a file
ToolCreate(f) ==
    /\ Waiting
    /\ f \notin files
    /\ files' = files \cup {f}
    /\ fileSize' = [fileSize EXCEPT ![f] = 1000]
    /\ EnvFrame

\* the capture tool appends to a trace file
ToolWrite(f) ==
    /\ Waiting
    /\ f \in files /\ ~IsSummary(f)
    /\ fileSize[f] + 500 \in Sizes
    /\ fileSize' = [fileSize EXCEPT ![f] = @ + 500]
    /\ UNCHANGED files
    /\ EnvFrame

(***************************************************************************)
(* get_new_logs and the for loop over its result, as record and            *)
(* record_manual both define them (cli.py:987-998 and 1460-1471).          *)
(***************************************************************************)
\* for log_file in output_dir.glob("*.csv"):
\*     if "_summary" not in log_file.name and log_file.name not in processed_logs
\* a variant that does not look at processed_logs
Unprocessed_all == {f \in files : ~IsSummary(f)}
Unprocessed == {f \in files : ~IsSummary(f) /\ f \notin processed_logs}

\* glob yields the names in directory order, here the order of the names
First(S) == CHOOSE f \in S : \A other \in S : f <= other

\* a variant that accepts a trace of exactly 1000 bytes
Complete_ge(s1, s2) == s1 = s2 /\ s1 >= MinSize
\* if size1 == size2 and size1 > 1000
Complete(s1, s2) == s1 = s2 /\ s1 > MinSize

\* entering get_new_logs()
EnterGetNewLogs ==
    /\ todo' = Unprocessed
    /\ new_logs' = {}
    /\ UNCHANGED <<size1, visiting>>

ScanFrame == UNCHANGED <<storeVars, constVars, toolVars, dirVars, procVars,
                         sessVars, benchVars, histVars>>

\* size1 = log_file.stat().st_size, then time.sleep(0.5)
FirstSample(f) ==
    /\ pc = "glob"
    /\ todo # {} /\ f = First(todo)
    /\ todo' = todo \ {f}
    /\ visiting' = f
    /\ size1' = fileSize[f]
    /\ Goto("sample")
    /\ UNCHANGED <<new_logs, pending, cancelled>>
    /\ ScanFrame

\* size2 = log_file.stat().st_size; the file joins new_logs when complete
SecondSample ==
    /\ pc = "sample"
    /\ new_logs' = IF Complete(size1, fileSize[visiting])
                   THEN new_logs \cup {visiting} ELSE new_logs
    /\ visiting' = 0
    /\ size1' = 0
    /\ Goto("glob")
    /\ UNCHANGED <<todo, pending, cancelled>>
    /\ ScanFrame

\* return new_logs
ReturnNewLogs ==
    /\ pc = "glob"
    /\ todo = {}
    /\ Goto("for")
    /\ UNCHANGED <<scanVars, pending, cancelled>>
    /\ ScanFrame

\* for log_path in new_logs: processed_logs.add(log_path.name); process_log(..)
ForNextLog(f) ==
    /\ pc = "for"
    /\ new_logs # {} /\ f = First(new_logs)
    /\ new_logs' = new_logs \ {f}
    /\ processed_logs' = processed_logs \cup {f}
    /\ log_path' = f
    /\ Goto(IF cmd = "record" THEN "r_analyze" ELSE "m_analyze")
    /\ UNCHANGED <<storeVars, constVars, pending, cancelled, toolVars, dirVars,
                   todo, size1, visiting, chosen, resolution,
                   user_requested_stop, recording_count, game_reports,
                   afterLoop, benchVars, histVars>>

\* the for loop is over: time.sleep(1.0) inside the while loop, the finally
\* block after the last scan of record
ForDone ==
    /\ pc = "for"
    /\ new_logs = {}
    /\ Goto(IF afterLoop THEN "finally" ELSE "sleep")
    /\ UNCHANGED <<storeVars, constVars, pending, cancelled, toolVars, dirVars,
                   recVars, benchVars, histVars>>

\* process_log returned `cont` to the loop that called it
Return(cont) ==
    IF afterLoop
    THEN Goto("for") /\ UNCHANGED user_requested_stop
    ELSE IF cont
         THEN Goto("for") /\ UNCHANGED user_requested_stop
         ELSE Goto("sleep") /\ user_requested_stop' = TRUE

\* KeyboardInterrupt while the command waits: except KeyboardInterrupt, then
\* the finally block
Interrupt ==
    /\ pc \in {"sample", "sleep", "r_after", "r_launch"}
    /\ cancelled' = TRUE
    /\ Goto("finally")
    /\ UNCHANGED <<storeVars, constVars, pending, toolVars, dirVars, recVars,
                   benchVars, histVars>>

\* an exception other than KeyboardInterrupt inside the try block: the finally
\* block runs with the exception in flight
Raise(kind) == pending' = kind /\ Goto("finally")

(***************************************************************************)
(* record (cli.py:866-1163)                                                *)
(***************************************************************************)
RecordInit ==
    /\ InitStore({[fp |-> NoFp, runs |-> EmptyMap]})
    /\ InitCommand("record", "r_start")
    /\ IdleTool /\ IdleRec /\ IdleBench
    /\ InitDir

RecFrame == UNCHANGED <<constVars, dirVars, scanVars, benchVars>>

\* scanner.scan(), the game by id or by name; not found: typer.Exit(1)
RecordFindGame(ok) ==
    /\ pc = "r_start"
    /\ IF ok THEN Goto("r_setup") ELSE Exit(1)
    /\ UNCHANGED <<storeVars, pending, cancelled, toolVars, procVars, sessVars,
                   histVars>>
    /\ RecFrame

\* mangohud_manager.backup_config(); mangohud_manager.set_benchmark_config(...)
RecordConfigure ==
    /\ pc = "r_setup"
    /\ mangoCfg' = "bench"
    /\ Goto("r_setlaunch")
    /\ UNCHANGED <<storeVars, pending, cancelled, launchOpts, restoreLog,
                   procVars, sessVars, histVars>>
    /\ RecFrame

\* try: set_launch_options(...) except Exception: warning
RecordSetLaunch(ok) ==
    /\ pc = "r_setlaunch"
    /\ launchOpts' = IF ok THEN "bench" ELSE launchOpts
    /\ Goto("r_check")
    /\ UNCHANGED <<storeVars, pending, cancelled, mangoCfg, restoreLog,
                   procVars, sessVars, histVars>>
    /\ RecFrame

\* if not storage.check_fingerprint(steam_app_id, fp): (not inside any try)
RecordCheckFp(ok) ==
    /\ pc = "r_check"
    /\ IF ok
       THEN /\ CallCheck(target)
            /\ Goto(AfterCheck(check_fingerprint(target, curFp),
                               "r_archive", "r_savefp"))
       ELSE Exit(1) /\ CallRaises("check", target)
    /\ UNCHANGED <<pending, cancelled, toolVars, procVars, sessVars>>
    /\ RecFrame

\* storage.archive_old_data(steam_app_id)
RecordArchive(ok) ==
    /\ pc = "r_archive"
    /\ IF ok
       THEN CallArchive(target) /\ Goto("r_savefp")
       ELSE Exit(1) /\ CallRaises("archive", target)
    /\ UNCHANGED <<pending, cancelled, toolVars, procVars, sessVars>>
    /\ RecFrame

\* storage.save_fingerprint(steam_app_id, fp, system_info)
RecordSaveFp(ok) ==
    /\ pc = "r_savefp"
    /\ IF ok
       THEN CallSaveFp(target) /\ Goto("r_registry")
       ELSE Exit(1) /\ CallRaises("savefp", target)
    /\ UNCHANGED <<pending, cancelled, toolVars, procVars, sessVars>>
    /\ RecFrame

\* registry.get_or_create(...); then processed_logs = the traces already there
RecordRegister(ok) ==
    /\ pc = "r_registry"
    /\ IF ok
       THEN /\ processed_logs' = {f \in files : ~IsSummary(f)}
            /\ Goto("r_launch")
       ELSE Exit(1) /\ UNCHANGED processed_logs
    /\ UNCHANGED <<storeVars, pending, cancelled, toolVars, procVars,
                   user_requested_stop, recording_count, game_reports,
                   afterLoop, histVars>>
    /\ RecFrame

\* success = launcher.launch(..., ready_timeout=120.0): the game is seen
\* ("ready"), is not seen in time ("timeout": raise typer.Exit(1)), or the
\* launcher raises ("error")
RecordLaunch(outcome) ==
    /\ pc = "r_launch"
    /\ events' = Append(events, EvLaunch(outcome))
    /\ CASE outcome = "ready" -> Goto("r_while") /\ UNCHANGED pending
         [] outcome = "timeout" -> Raise("exit1")
         [] outcome = "error" -> Raise("error")
    /\ UNCHANGED <<storeVars, cancelled, toolVars, procVars, sessVars>>
    /\ RecFrame

\* while launcher.is_running() and not user_requested_stop:
\*     new_logs = get_new_logs()
RecordWhile(running) ==
    /\ pc = "r_while"
    /\ IF running /\ ~user_requested_stop
       THEN EnterGetNewLogs /\ Goto("glob")
       ELSE UNCHANGED scanVars /\ Goto("r_after")
    /\ UNCHANGED <<storeVars, constVars, pending, cancelled, toolVars, dirVars,
                   procVars, sessVars, benchVars, histVars>>

\* time.sleep(1.0) is over, back to the loop condition of the command
SleepDone ==
    /\ pc = "sleep"
    /\ Goto(IF cmd = "record" THEN "r_while" ELSE "m_while")
    /\ UNCHANGED <<storeVars, constVars, pending, cancelled, toolVars, dirVars,
                   recVars, benchVars, histVars>>

\* after the loop: nothing more when the user asked to stop; otherwise
\* time.sleep(2.0) and one last get_new_logs()
RecordAfterLoop ==
    /\ pc = "r_after"
    /\ IF user_requested_stop
       THEN Goto("finally") /\ UNCHANGED <<scanVars, afterLoop>>
       ELSE EnterGetNewLogs /\ afterLoop' = TRUE /\ Goto("glob")
    /\ UNCHANGED <<storeVars, constVars, pending, cancelled, toolVars, dirVars,
                   procVars, processed_logs, user_requested_stop,
                   recording_count, game_reports, benchVars, histVars>>

ProcFrame == UNCHANGED <<constVars, toolVars, dirVars, scanVars, benchVars>>

\* process_log: analyzer = FrametimeAnalyzer(log_path); analyzer.analyze()
\* except Exception: return False
RecordAnalyze(ok) ==
    /\ pc = "r_analyze"
    /\ events' = Append(events, EvAnalyze(log_path, ok))
    /\ IF ok
       THEN Goto("r_resolution") /\ UNCHANGED user_requested_stop
       ELSE Return(FALSE)
    /\ UNCHANGED <<storeVars, pending, cancelled, procVars, processed_logs,
                   recording_count, game_reports, afterLoop>>
    /\ ProcFrame

\* process_log: the resolution prompt; it fails ("abort": return False), the
\* user discards ("0": return True) or selects a resolution
RecordResolution(choice) ==
    /\ pc = "r_resolution"
    /\ CASE choice = "abort" -> Return(FALSE) /\ UNCHANGED resolution
         [] choice = "0" -> Return(TRUE) /\ UNCHANGED resolution
         [] OTHER -> /\ resolution' = ResolutionOf(choice)
                     /\ Goto("r_save")
                     /\ UNCHANGED user_requested_stop
    /\ UNCHANGED <<storeVars, pending, cancelled, log_path, chosen,
                   processed_logs, recording_count, game_reports, afterLoop,
                   histVars>>
    /\ ProcFrame

\* process_log: storage.save_run(...); recording_count += 1
\* (ok = FALSE: save_run raises, out of process_log and of the loop)
RecordSaveRun(ok) ==
    /\ pc = "r_save"
    /\ IF ok
       THEN /\ CallSaveRun(target, resolution, Run(log_path))
            /\ recording_count' = recording_count + 1
            /\ Goto("r_continue")
            /\ UNCHANGED pending
       ELSE Raise("error") /\ CallRaises("saverun", target)
            /\ UNCHANGED recording_count
    /\ UNCHANGED <<cancelled, procVars, processed_logs, user_requested_stop,
                   game_reports, afterLoop>>
    /\ ProcFrame

\* process_log: the continue prompt; it fails ("abort": return True), the user
\* finishes ("2": return False) or continues
RecordContinue(choice) ==
    /\ pc = "r_continue"
    /\ Return(choice # "2")
    /\ UNCHANGED <<storeVars, pending, cancelled, procVars, processed_logs,
                   recording_count, game_reports, afterLoop, histVars>>
    /\ ProcFrame

\* finally: mangohud_manager.restore_config()
\* (ok = FALSE: it raises, and the exception leaves the finally block)
RestoreConfig(ok) ==
    /\ pc = "finally"
    /\ restoreLog' = Append(restoreLog, "config")
    /\ IF ok
       THEN /\ mangoCfg' = "orig"
            /\ UNCHANGED pending
            /\ IF cmd = "record" THEN Goto("r_finally2")
               ELSE IF pending # "none" THEN Exit(1) ELSE Goto("m_report")
       ELSE /\ pending' = "error"
            /\ Exit(1)
            /\ UNCHANGED mangoCfg
    /\ UNCHANGED <<storeVars, constVars, cancelled, launchOpts, dirVars, recVars,
                   benchVars, histVars>>

\* finally: try: restore_launch_options(...) except: pass; then the exception
\* in flight, if any, leaves the command
RecordRestoreLaunch(ok) ==
    /\ pc = "r_finally2"
    /\ restoreLog' = Append(restoreLog, "launch")
    /\ launchOpts' = IF ok THEN "orig" ELSE launchOpts
    /\ IF pending # "none" THEN Exit(1) ELSE Goto("r_report")
    /\ UNCHANGED <<storeVars, constVars, pending, cancelled, mangoCfg, dirVars,
                   recVars, benchVars, histVars>>

\* if recording_count > 0: the report; "Session ended"
RecordReport ==
    /\ pc = "r_report"
    /\ IF recording_count > 0
       THEN CallReport({target})
       ELSE UNCHANGED <<storeVars, histVars>>
    /\ Exit(0)
    /\ UNCHANGED <<constVars, pending, cancelled, toolVars, dirVars, recVars,
                   benchVars>>

RecordNext ==
    \/ \E ok \in BOOLEAN : RecordFindGame(ok)
    \/ RecordConfigure
    \/ \E ok \in BOOLEAN : RecordSetLaunch(ok)
    \/ \E ok \in BOOLEAN : RecordCheckFp(ok)
    \/ \E ok \in BOOLEAN : RecordArchive(ok)
    \/ \E ok \in BOOLEAN : RecordSaveFp(ok)
    \/ \E ok \in BOOLEAN : RecordRegister(ok)
    \/ \E outcome \in {"ready", "timeout", "error"} : RecordLaunch(outcome)
    \/ \E running \in BOOLEAN : RecordWhile(running)
    \/ RecordAfterLoop
    \/ \E ok \in BOOLEAN : RecordAnalyze(ok)
    \/ \E choice \in Choices \cup {"abort"} : RecordResolution(choice)
    \/ \E ok \in BOOLEAN : RecordSaveRun(ok)
    \/ \E choice \in {"1", "2", "abort"} : RecordContinue(choice)
    \/ \E ok \in BOOLEAN : RecordRestoreLaunch(ok)
    \/ RecordReport

\* what record and record_manual share
MonitorNext ==
    \/ \E f \in Logs : ToolCreate(f)
    \/ \E f \in Logs : ToolWrite(f)
    \/ \E f \in Logs : FirstSample(f)
    \/ SecondSample
    \/ ReturnNewLogs
    \/ \E f \in Logs : ForNextLog(f)
    \/ ForDone
    \/ SleepDone
    \/ Interrupt
    \/ \E ok \in BOOLEAN : RestoreConfig(ok)

(***************************************************************************)
(* record_manual (cli.py:1383-1667)                                        *)
(***************************************************************************)
ManualInit ==
    /\ InitStore({[fp |-> NoFp, runs |-> EmptyMap],
                  [fp |-> "fpB", runs |-> ("1920x1080" :> <<OldRun>>)]})
    /\ InitCommand("record_manual", "m_start")
    /\ IdleTool /\ IdleRec /\ IdleBench
    /\ InitDir

\* mangohud_manager.backup_config(); mangohud_manager.set_benchmark_config(...)
\* then processed_logs = the traces already there
ManualConfigure ==
    /\ pc = "m_start"
    /\ mangoCfg' = "bench"
    /\ processed_logs' = {f \in files : ~IsSummary(f)}
    /\ Goto("m_while")
    /\ UNCHANGED <<storeVars, pending, cancelled, launchOpts, restoreLog,
                   procVars, user_requested_stop, recording_count, game_reports,
                   afterLoop, histVars>>
    /\ RecFrame

\* while not user_requested_stop: new_logs = get_new_logs()
ManualWhile ==
    /\ pc = "m_while"
    /\ IF ~user_requested_stop
       THEN EnterGetNewLogs /\ Goto("glob")
       ELSE UNCHANGED scanVars /\ Goto("finally")
    /\ UNCHANGED <<storeVars, constVars, pending, cancelled, toolVars, dirVars,
                   procVars, sessVars, benchVars, histVars>>

\* process_log: analyzer.analyze() except Exception: return True
ManualAnalyze(ok) ==
    /\ pc = "m_analyze"
    /\ events' = Append(events, EvAnalyze(log_path, ok))
    /\ IF ok
       THEN Goto("m_game") /\ UNCHANGED user_requested_stop
       ELSE Return(TRUE)
    /\ UNCHANGED <<storeVars, pending, cancelled, procVars, processed_logs,
                   recording_count, game_reports, afterLoop>>
    /\ ProcFrame

\* process_log: the game prompt and GameFinder.find: a prompt fails ("abort":
\* return True), no Steam game is found ("none": return True), or the game
\* found is entered in game_reports
ManualGame(found) ==
    /\ pc = "m_game"
    /\ IF found \in Games
       THEN /\ chosen' = found
            /\ game_reports' = game_reports \cup {found}
            /\ Goto("m_resolution")
            /\ UNCHANGED user_requested_stop
       ELSE Return(TRUE) /\ UNCHANGED <<chosen, game_reports>>
    /\ UNCHANGED <<storeVars, pending, cancelled, log_path, resolution,
                   processed_logs, recording_count, afterLoop, histVars>>
    /\ ProcFrame

\* process_log: the resolution prompt; it fails ("abort": return True), the
\* user discards ("0": return True) or selects a resolution
ManualResolution(choice) ==
    /\ pc = "m_resolution"
    /\ CASE choice = "abort" -> Return(TRUE) /\ UNCHANGED resolution
         [] choice = "0" -> Return(TRUE) /\ UNCHANGED resolution
         [] OTHER -> /\ resolution' = ResolutionOf(choice)
                     /\ Goto("m_check")
                     /\ UNCHANGED user_requested_stop
    /\ UNCHANGED <<storeVars, pending, cancelled, log_path, chosen,
                   processed_logs, recording_count, game_reports, afterLoop,
                   histVars>>
    /\ ProcFrame

ManualFrame == UNCHANGED <<cancelled, procVars, sessVars>>

\* process_log: if not storage.check_fingerprint(app_id, fp):
\* (ok = FALSE: the call raises, out of process_log and of the loop)
ManualCheckFp(ok) ==
    /\ pc = "m_check"
    /\ IF ok
       THEN /\ CallCheck(chosen)
            /\ Goto(AfterCheck(check_fingerprint(chosen, curFp),
                               "m_archive", "m_savefp"))
            /\ UNCHANGED pending
       ELSE Raise("error") /\ CallRaises("check", chosen)
    /\ ManualFrame /\ ProcFrame

\* process_log: storage.archive_old_data(app_id)
ManualArchive(ok) ==
    /\ pc = "m_archive"
    /\ IF ok
       THEN CallArchive(chosen) /\ Goto("m_savefp") /\ UNCHANGED pending
       ELSE Raise("error") /\ CallRaises("archive", chosen)
    /\ ManualFrame /\ ProcFrame

\* process_log: storage.save_fingerprint(app_id, fp, system_info)
ManualSaveFp(ok) ==
    /\ pc = "m_savefp"
    /\ IF ok
       THEN CallSaveFp(chosen) /\ Goto("m_registry") /\ UNCHANGED pending
       ELSE Raise("error") /\ CallRaises("savefp", chosen)
    /\ ManualFrame /\ ProcFrame

\* process_log: registry.get_or_create(...)
ManualRegister(ok) ==
    /\ pc = "m_registry"
    /\ IF ok
       THEN Goto("m_save") /\ UNCHANGED pending
       ELSE Raise("error")
    /\ UNCHANGED <<storeVars, histVars>>
    /\ ManualFrame /\ ProcFrame

\* process_log: storage.save_run(...); recording_count += 1
ManualSaveRun(ok) ==
    /\ pc = "m_save"
    /\ IF ok
       THEN /\ CallSaveRun(chosen, resolution, Run(log_path))
            /\ recording_count' = recording_count + 1
            /\ Goto("m_continue")
            /\ UNCHANGED pending
       ELSE Raise("error") /\ CallRaises("saverun", chosen)
            /\ UNCHANGED recording_count
    /\ UNCHANGED <<cancelled, procVars, processed_logs, user_requested_stop,
                   game_reports, afterLoop>>
    /\ ProcFrame

\* process_log: the continue prompt; it fails ("abort": return True), the user
\* finishes ("2": return False) or continues
ManualContinue(choice) ==
    /\ pc = "m_continue"
    /\ Return(choice # "2")
    /\ UNCHANGED <<storeVars, pending, cancelled, procVars, processed_logs,
                   recording_count, game_reports, afterLoop, histVars>>
    /\ ProcFrame

\* if recording_count > 0: a report for every game of game_reports
ManualReport ==
    /\ pc = "m_report"
    /\ IF recording_count > 0
       THEN CallReport(game_reports)
       ELSE UNCHANGED <<storeVars, histVars>>
    /\ Exit(0)
    /\ UNCHANGED <<constVars, pending, cancelled, toolVars, dirVars, recVars,
                   benchVars>>

ManualNext ==
    \/ ManualConfigure
    \/ ManualWhile
    \/ \E ok \in BOOLEAN : ManualAnalyze(ok)
    \/ \E found \in Games \cup {"none", "abort"} : ManualGame(found)
    \/ \E choice \in Choices \cup {"abort"} : ManualResolution(choice)
    \/ \E ok \in BOOLEAN : ManualCheckFp(ok)
    \/ \E ok \in BOOLEAN : ManualArchive(ok)
    \/ \E ok \in BOOLEAN : ManualSaveFp(ok)
    \/ \E ok \in BOOLEAN : ManualRegister(ok)
    \/ \E ok \in BOOLEAN : ManualSaveRun(ok)
    \/ \E choice \in {"1", "2", "abort"} : ManualContinue(choice)
    \/ ManualReport

Init == BenchInit \/ RecordInit \/ ManualInit
Next == BenchNext \/ RecordNext \/ ManualNext \/ MonitorNext
Spec == Init /\ [][Next]_vars

\* The command itself keeps running: every step of it that can be taken is
\* taken. Nothing is assumed of the capture tool or of Ctrl+C.
CommandNext ==
    \/ BenchNext \/ RecordNext \/ ManualNext
    \/ \E f \in Logs : FirstSample(f)
    \/ SecondSample
    \/ ReturnNewLogs
    \/ \E f \in Logs : ForNextLog(f)
    \/ ForDone
    \/ SleepDone
    \/ \E ok \in BOOLEAN : RestoreConfig(ok)
FairSpec == Spec /\ WF_vars(CommandNext)

(***************************************************************************)
(* Properties                                                              *)
(***************************************************************************)
Recording == cmd \in {"record", "record_manual"}
Ev == 1..Len(events)
IsEv(i, op) == events[i].op = op
\* the capture-tool configuration was modified by this invocation
Modified == mangoCfg = "bench" \/ restoreLog # <<>>
\* a restoration step was executed
Ran(step) == \E i \in 1..Len(restoreLog) : restoreLog[i] = step

\* C1: once record or record_manual has modified the capture-tool
\* configuration, every exit of the command has executed restore_config, and
\* in record restore_launch_options as well.
C1_RestoredOnEveryExit ==
    (pc = "exited" /\ Recording /\ Modified) =>
        /\ Ran("config")
        /\ (cmd = "record" => Ran("launch"))

LastCheckBefore(g, j) ==
    LET S == {i \in 1..(j - 1) : IsEv(i, "check") /\ events[i].game = g}
    IN  IF S = {} THEN 0 ELSE CHOOSE i \in S : \A k \in S : k <= i

\* C3: in benchmark, record and record_manual, archive_old_data is called
\* right after a check_fingerprint of the same game that returned false and
\* only then; when save_fingerprint is called, archive_old_data was called
\* since the last check exactly if that check returned false; every save_run
\* comes after a save_fingerprint of the game with the current fingerprint;
\* and a check that returns false is followed by the call of archive_old_data,
\* not by the end of the session.
C3_ArchiveThenContinue ==
    /\ \A k \in Ev : IsEv(k, "archive") =>
            /\ k > 1 /\ IsEv(k - 1, "check")
            /\ events[k - 1].game = events[k].game
            /\ ~events[k - 1].result
    /\ \A j \in Ev : IsEv(j, "savefp") =>
            LET g == events[j].game
                i == LastCheckBefore(g, j)
            IN  /\ i > 0
                /\ events[j].fp = curFp
                /\ (\E k \in (i + 1)..(j - 1) :
                        IsEv(k, "archive") /\ events[k].game = g)
                   <=> ~events[i].result
    /\ \A k \in Ev : IsEv(k, "saverun") =>
            \E j \in 1..(k - 1) : events[j] = EvSaveFp(events[k].game, curFp)
    /\ \A i \in Ev : (IsEv(i, "check") /\ ~events[i].result) =>
            IF i = Len(events)
            THEN pc \in {"b_archive", "r_archive", "m_archive"}
            ELSE \/ IsEv(i + 1, "archive") /\ events[i + 1].game = events[i].game
                 \/ events[i + 1] = EvRaise("archive", events[i].game)
\* a mismatch was found, the old data archived, and a run saved afterwards
C3_Witness ==
    \E i \in Ev, k \in Ev :
        /\ i < k /\ IsEv(i, "archive") /\ events[i].loc # 0
        /\ IsEv(k, "saverun") /\ events[k].game = events[i].game

\* C4 (SpecStore): after archive_old_data(g) and a later save_fingerprint(g, ..),
\* with no save_run(g, ..) since the archive, get_all_resolutions(g) is the
\* empty mapping; and what an archive_old_data call archived is still found,
\* unchanged, at the location the call returned.
C4_ArchivedThenEmpty ==
    /\ \A i \in Ev, j \in Ev :
          ( /\ i < j
            /\ IsEv(i, "archive") /\ IsEv(j, "savefp")
            /\ events[j].game = events[i].game
            /\ ~\E k \in (i + 1)..Len(events) :
                    IsEv(k, "saverun") /\ events[k].game = events[i].game )
          => DOMAIN get_all_resolutions(events[i].game) = {}
    /\ \A i \in Ev : IsEv(i, "archive") =>
          IF events[i].data = EmptyMap
          THEN events[i].loc = 0
          ELSE /\ events[i].loc \in 1..Len(archives[events[i].game])
               /\ archived_at(events[i].game, events[i].loc) = events[i].data
\* runs were saved, archived, a fingerprint saved, and no run saved since
C4_Witness ==
    \E i \in Ev, j \in Ev :
        /\ i < j /\ IsEv(i, "archive") /\ events[i].loc # 0
        /\ IsEv(j, "savefp") /\ events[j].game = events[i].game
        /\ j = Len(events)

\* the fingerprint save_fingerprint saved last for g before call i, or NoFp
LastSavedBefore(g, i) ==
    LET S == {j \in 1..(i - 1) : IsEv(j, "savefp") /\ events[j].game = g}
    IN  IF S = {} THEN NoFp
        ELSE events[CHOOSE j \in S : \A k \in S : k <= j].fp

\* C5 (SpecStore): check_fingerprint(g, fp) returns true exactly if no
\* save_fingerprint(g, ..) was called before, or the last one saved fp.
C5_CheckFingerprint ==
    \A i \in Ev : IsEv(i, "check") =>
        (events[i].result <=>
            LET last == LastSavedBefore(events[i].game, i)
            IN  last = NoFp \/ last = events[i].fp)
\* a check that returned false: another fingerprint was the last one saved
C5_Witness ==
    \E i \in Ev :
        /\ IsEv(i, "check") /\ ~events[i].result
        /\ LastSavedBefore(events[i].game, i) \notin {NoFp, events[i].fp}

\* the results save_run was called for, in call order
SavedResults ==
    LET RECURSIVE Srcs(_)
        Srcs(n) == IF n = 0 THEN <<>>
                   ELSE IF IsEv(n, "saverun")
                        THEN Append(Srcs(n - 1), events[n].run.src)
                        ELSE Srcs(n - 1)
    IN  Srcs(Len(events))
\* the results among the first n that are no warmup and carry metrics
Measured(n) ==
    LET RECURSIVE Sel(_)
        Sel(k) == IF k = 0 THEN <<>>
                  ELSE IF ~results[k].is_warmup /\ results[k].metrics
                       THEN Append(Sel(k - 1), k)
                       ELSE Sel(k - 1)
    IN  Sel(n)
\* benchmark came to its end without an error and without "0" at the prompt
BenchDone ==
    cmd = "benchmark" /\ pc = "exited" /\ exitCode = 0 /\ resolution # "none"

\* C6: in benchmark, save_run is never called for a warmup result; while the
\* loop over session.results runs, the calls made are those for the results
\* before the loop index that are no warmup and carry metrics, once each and
\* in order; when the command ends, those for all such results.
C6_NoWarmupStored ==
    cmd = "benchmark" =>
        /\ \A i \in Ev : IsEv(i, "saverun") =>
              /\ events[i].run.src \in 1..Len(results)
              /\ ~results[events[i].run.src].is_warmup
        /\ (pc = "b_loop" => SavedResults = Measured(ri - 1))
        /\ (BenchDone => SavedResults = Measured(Len(results)))
\* a session with a warmup that has metrics, a measured run without, and a
\* measured run with metrics, ended and saved
C6_Witness ==
    /\ BenchDone
    /\ SavedResults # <<>>
    /\ \E i \in 1..Len(results) : results[i].is_warmup /\ results[i].metrics
    /\ \E i \in 1..Len(results) : ~results[i].is_warmup /\ ~results[i].metrics

\* C7: when a session ends after the user's interrupt, the measured runs
\* captured before it have reached the store, and the restoration step of a
\* recording session was attempted.
C7_InterruptKeepsRuns ==
    (pc = "exited" /\ cancelled) =>
        /\ (cmd = "benchmark" =>
               \A n \in 1..Len(results) :
                   (~results[n].is_warmup /\ results[n].metrics) =>
                       \E i \in Ev : IsEv(i, "saverun") /\ events[i].run.src = n)
        /\ (Recording => Ran("config"))

\* C8: in record and record_manual, the failed analysis of a trace does not
\* end the monitoring: right after it the loop has no request to stop.
C8_AnalysisFailureKeepsMonitoring ==
    ( /\ Recording
      /\ events # <<>>
      /\ IsEv(Len(events), "analyze")
      /\ ~events[Len(events)].ok ) => ~user_requested_stop

\* the trace file f was reported as an incomplete capture
Reported(f) == \E i \in Ev : IsEv(i, "incomplete") /\ events[i].log = f
\* f is a new trace file that is not complete: at most 1000 bytes, or not yet
\* accepted by a poll
Incomplete(f) ==
    f \in files /\ ~IsSummary(f) /\ f \notin processed_logs /\ fileSize[f] <= MinSize

\* get_new_logs is taking the two size samples of f
Polled(f) == pc = "sample" /\ visiting = f

\* C9 (FairSpec): a trace file that stays incomplete for ever while the
\* session polls it again and again is at some time reported as an
\* incomplete capture.
C9_IncompleteCaptureReported ==
    \A f \in Logs :
        ((<>[]Incomplete(f)) /\ ([]<>Polled(f))) => <>Reported(f)

\* the game was not seen within the readiness timeout
TimedOut == \E i \in Ev : events[i] = EvLaunch("timeout")

\* C10: when record ends after a launch timeout, the exit status is not 0, no
\* trace was analyzed or saved, no report was made, and restore_config and
\* restore_launch_options were both executed.
C10_LaunchTimeoutFails ==
    (pc = "exited" /\ TimedOut) =>
        /\ exitCode # 0
        /\ \A i \in Ev : events[i].op \notin {"analyze", "saverun", "report"}
        /\ Ran("config") /\ Ran("launch")

\* C11: a step of the finally block leaves the exception in flight (the error
\* or exit status that caused the exit) as it was, failed or not; and in
\* record, restore_config is followed by restore_launch_options, failed or not.
C11_RestoreFailureContained ==
    [][ /\ (pc \in {"finally", "r_finally2"}) => pending' = pending
        /\ (pc = "finally" /\ cmd = "record") => pc' = "r_finally2"
      ]_vars

(***************************************************************************)
(* Steam's localconfig.vdf (steam/launch_options.py).  The text is kept as *)
(* its sequence of tokens: quoted strings and braces.  Steam writes every  *)
(* closing brace on a line of its own; a closing brace that follows other  *)
(* text on its line is told apart, because "\n\s*\}" matches the first     *)
(* kind only.  Launch options hold no quote and no brace.                  *)
(***************************************************************************)
Str(v) == [t |-> "str", v |-> v]
Open == [t |-> "{", v |-> ""]
Close == [t |-> "}", v |-> "line"]
CloseInline == [t |-> "}", v |-> "inline"]
\* get_launch_options and get_original_launch_options returning None
NoKey == "nokey"

\* re.IGNORECASE on the names the files hold
casefold(v) == IF v = "Apps" THEN "apps" ELSE v
\* the token is the quoted text, as a pattern with or without re.IGNORECASE
\* matches it
IsQuoted(tok, text, ignorecase) ==
    /\ tok.t = "str"
    /\ IF ignorecase THEN casefold(tok.v) = casefold(text) ELSE tok.v = text

\* re.search of
\*   "apps"[^{]*\{[^}]*"<app_id>"[^{]*\{[^}]*"LaunchOptions"\s+"([^"]*)"
\* group(1) of the match: the leftmost "apps", then the longest [^}]* each
\* time; None without a match
search_launch_options(content, section, app_id, ignorecase) ==
    LET n == Len(content)
        Least(S) == CHOOSE i \in S : \A j \in S : i <= j
        Greatest(S) == CHOOSE i \in S : \A j \in S : i >= j
        Opens(i) == {j \in (i + 1)..n : content[j].t = "{"}
        NoClose(i, j) == \A x \in (i + 1)..(j - 1) : content[x].t # "}"
        \* "LaunchOptions"\s+"([^"]*)" reached from the brace at o by [^}]*
        Keys(o) == {l \in (o + 1)..(n - 1) :
                      /\ IsQuoted(content[l], "LaunchOptions", ignorecase)
                      /\ content[l + 1].t = "str"
                      /\ NoClose(o, l)}
        \* "<app_id>"[^{]*\{ reached from the brace at o by [^}]*, with a
        \* key behind it
        Ids(o) == {k \in (o + 1)..n :
                     /\ IsQuoted(content[k], app_id, ignorecase)
                     /\ NoClose(o, k)
                     /\ Opens(k) # {}
                     /\ Keys(Least(Opens(k))) # {}}
        Starts == {a \in 1..n :
                     /\ IsQuoted(content[a], section, ignorecase)
                     /\ Opens(a) # {}
                     /\ Ids(Least(Opens(a))) # {}}
    IN  IF Starts = {} THEN NoKey
        ELSE LET a == Least(Starts)
                 k == Greatest(Ids(Least(Opens(a))))
                 l == Greatest(Keys(Least(Opens(k))))
             IN  content[l + 1].v

\* get_launch_options(app_id)
get_launch_options(file, app_id) ==
    search_launch_options(file.vdf, "apps", app_id, FALSE)

\* str.replace(old, new): every occurrence from left to right; the empty text
\* occurs before every character and at the end, so that of a string only
\* pieces are left
replace(text, old, new) ==
    LET RECURSIVE Rep(_)
        Rep(s) ==
            IF Len(s) < Len(old) THEN s
            ELSE IF SubSeq(s, 1, Len(old)) = old
                 THEN new \o Rep(SubSeq(s, Len(old) + 1, Len(s)))
                 ELSE <<Head(s)>> \o Rep(Tail(s))
        RECURSIVE Between(_)
        Between(s) ==
            IF s = <<>> THEN new
            ELSE new
                 \o <<IF Head(s).t = "str"
                      THEN [t |-> "pieces", v |-> Head(s).v] ELSE Head(s)>>
                 \o Between(Tail(s))
    IN  IF old = <<>> THEN Between(text) ELSE Rep(text)

\* re.sub(r'"LaunchOptions"\s+"[^"]*"', f'"LaunchOptions"\t\t"{options}"', block)
sub_launch_options(block, options) ==
    LET RECURSIVE Sub(_)
        Sub(s) ==
            IF Len(s) < 2 THEN s
            ELSE IF IsQuoted(s[1], "LaunchOptions", FALSE) /\ s[2].t = "str"
                 THEN <<s[1], Str(options)>> \o Sub(SubSeq(s, 3, Len(s)))
                 ELSE <<Head(s)>> \o Sub(Tail(s))
    IN  Sub(block)

\* new_content of set_launch_options (launch_options.py:96-132)
new_content(content, app_id, options) ==
    LET n == Len(content)
        Least(S) == CHOOSE i \in S : \A j \in S : i <= j
        \* ("Apps"\s*\{)(.*?)(\n\s*\}) with re.IGNORECASE
        Ends(a) == {e \in (a + 2)..n : content[e] = Close}
        Sections == {a \in 1..(n - 1) :
                       /\ IsQuoted(content[a], "Apps", TRUE)
                       /\ content[a + 1].t = "{"
                       /\ Ends(a) # {}}
        a == Least(Sections)
        apps_content == SubSeq(content, a + 2, Least(Ends(a)) - 1)
        m == Len(apps_content)
        \* ("<app_id>"\s*\{)(.*?)(\})
        Closes(i) == {j \in (i + 2)..m : apps_content[j].t = "}"}
        Entries == {i \in 1..(m - 1) :
                      /\ IsQuoted(apps_content[i], app_id, FALSE)
                      /\ apps_content[i + 1].t = "{"
                      /\ Closes(i) # {}}
        i == Least(Entries)
        j == Least(Closes(i))
        app_block == SubSeq(apps_content, i + 2, j - 1)
        replacing == \E x \in 1..Len(app_block) :
                         IsQuoted(app_block[x], "LaunchOptions", FALSE)
        new_app_block ==
            IF replacing
            THEN sub_launch_options(app_block, options)
            ELSE app_block \o <<Str("LaunchOptions"), Str(options)>>
        \* the added line ends with a line break, which puts the closing
        \* brace of the entry on a line of its own
        closing == IF replacing THEN apps_content[j] ELSE Close
        new_app_entry ==
            <<Str(app_id), Open, Str("LaunchOptions"), Str(options), Close>>
        new_apps_content ==
            IF Entries # {}
            THEN replace(apps_content, SubSeq(apps_content, i, j),
                         <<apps_content[i], apps_content[i + 1]>>
                            \o new_app_block \o <<closing>>)
            ELSE apps_content \o new_app_entry
    IN  IF Sections = {} THEN content
        ELSE replace(content, apps_content, new_apps_content)

\* set_launch_options(app_id, options, backup): shutil.copy2 to the .bak file
\* when backup is set, then the new content is written
set_launch_options(file, app_id, options, backup) ==
    [vdf |-> new_content(file.vdf, app_id, options),
     hasBak |-> backup \/ file.hasBak,
     bak |-> IF backup THEN file.vdf ELSE file.bak]

\* the options set_benchmark_launch_options(app_id) builds
BenchmarkOptions == "MANGOHUD=1 MANGOHUD_LOG_INTERVAL=0 %command%"

\* clear_launch_options(app_id)
clear_launch_options(file, app_id) == set_launch_options(file, app_id, "", TRUE)

\* get_original_launch_options(app_id): None without a backup file or match
get_original_launch_options(file, app_id) ==
    IF ~file.hasBak THEN NoKey
    ELSE search_launch_options(file.bak, "Apps", app_id, TRUE)

\* a variant that always clears
restore_launch_options_clear(file, app_id) == clear_launch_options(file, app_id)

\* restore_launch_options(app_id)
restore_launch_options(file, app_id) ==
    LET original == get_original_launch_options(file, app_id)
    IN  IF original # NoKey
        THEN set_launch_options(file, app_id, original, FALSE)
        ELSE clear_launch_options(file, app_id)

\* the localconfig.vdf files met: the apps section, when there is one, with
\* the entries of the two games in either layout
VdfFiles ==
    LET Entry(app_id, settings, close) ==
            <<Str(app_id), Open>> \o settings \o <<close>>
        Played(v) == <<Str("LastPlayed"), Str(v)>>
        Options(v) == <<Str("LaunchOptions"), Str(v)>>
        Steam(section) ==
            <<Str("Steam"), Open>> \o section
                \o <<Str("SurveyDate"), Str("2024"), Close>>
        Apps(name, entries) == <<Str(name), Open>> \o entries \o <<Close>>
    IN  { \* the first game has launch options, the second has none
          Steam(Apps("apps", Entry("g1", Played("1") \o Options("-novid"), Close)
                              \o Entry("g2", Played("2"), Close))),
          \* the first has none, the second has
          Steam(Apps("apps", Entry("g1", Played("1"), Close)
                              \o Entry("g2", Played("2") \o Options("-w"), Close))),
          \* one game has no entry
          Steam(Apps("apps", Entry("g2", Played("2") \o Options("-w"), Close))),
          \* no entry at all
          Steam(Apps("apps", <<>>)),
          \* no apps section
          Steam(<<>>),
          \* the section is named "Apps"
          Steam(Apps("Apps", Entry("g1", Played("1") \o Options("-novid"), Close)
                              \o Entry("g2", Played("2"), Close))),
          \* each entry on one line
          Steam(Apps("apps", Entry("g1", Options("-novid"), CloseInline)
                              \o Entry("g2", Played("2"), CloseInline))) }

(***************************************************************************)
(* SpecSessions: two record commands started by the user at the same time. *)
(* Each goes through the steps of record that touch the state the two      *)
(* share: the capture-tool configuration with its backup, and Steam's      *)
(* localconfig.vdf with its .bak copy. Here pc and target map a session to *)
(* its position and its game, mangoCfg holds the configuration file and    *)
(* its backup, launchOpts holds localconfig.vdf and its .bak copy.         *)
(***************************************************************************)
Sessions == {1, 2}
\* set_launch_options(target_game["app_id"], "MANGOHUD=1 %command%")
BenchOptions == "MANGOHUD=1 %command%"
NoFile == "nofile"

SessInit ==
    /\ cmd = "sessions"
    /\ pc = [p \in Sessions |-> "s_configure"]
    /\ target \in [Sessions -> Games]
    /\ mangoCfg = [config |-> "orig", backup |-> NoFile]
    /\ \E vdf \in VdfFiles, hasBak \in BOOLEAN :
          launchOpts = [vdf |-> vdf, hasBak |-> hasBak,
                        bak |-> IF hasBak THEN vdf ELSE <<>>]
    /\ restoreLog = <<>>
    /\ fpSaved = [g \in Games |-> NoFp]
    /\ groups = [g \in Games |-> EmptyMap]
    /\ archives = [g \in Games |-> <<>>]
    /\ curFp = "fpA" /\ exitCode = 0 /\ pending = "none" /\ cancelled = FALSE
    /\ input = "none"
    /\ IdleDir /\ IdleRec /\ IdleBench
    /\ events = <<>>

SessFrame ==
    UNCHANGED <<storeVars, constVars, exitCode, pending, cancelled,
                dirVars, recVars, benchVars, histVars>>

\* mangohud_manager.backup_config(); mangohud_manager.set_benchmark_config(...)
SessConfigure(p) ==
    /\ pc[p] = "s_configure"
    /\ mangoCfg' = [config |-> "bench", backup |-> mangoCfg.config]
    /\ pc' = [pc EXCEPT ![p] = "s_setlaunch"]
    /\ UNCHANGED <<launchOpts, restoreLog>> /\ SessFrame

\* try: set_launch_options(target_game["app_id"], "MANGOHUD=1 %command%")
SessSetLaunch(p) ==
    /\ pc[p] = "s_setlaunch"
    /\ launchOpts' = set_launch_options(launchOpts, target[p], BenchOptions, TRUE)
    /\ pc' = [pc EXCEPT ![p] = "s_active"]
    /\ UNCHANGED <<mangoCfg, restoreLog>> /\ SessFrame

\* the game is launched and monitored until the session ends
SessRun(p) ==
    /\ pc[p] = "s_active"
    /\ pc' = [pc EXCEPT ![p] = "s_restore_config"]
    /\ UNCHANGED <<mangoCfg, launchOpts, restoreLog>> /\ SessFrame

\* finally: mangohud_manager.restore_config()
SessRestoreConfig(p) ==
    /\ pc[p] = "s_restore_config"
    /\ mangoCfg' = IF mangoCfg.backup = NoFile THEN mangoCfg
                   ELSE [mangoCfg EXCEPT !.config = mangoCfg.backup]
    /\ restoreLog' = Append(restoreLog, <<p, "config">>)
    /\ pc' = [pc EXCEPT ![p] = "s_restore_launch"]
    /\ UNCHANGED launchOpts /\ SessFrame

\* finally: try: restore_launch_options(target_game["app_id"])
SessRestoreLaunch(p) ==
    /\ pc[p] = "s_restore_launch"
    /\ launchOpts' = restore_launch_options(launchOpts, target[p])
    /\ restoreLog' = Append(restoreLog, <<p, "launch">>)
    /\ pc' = [pc EXCEPT ![p] = "s_done"]
    /\ UNCHANGED mangoCfg /\ SessFrame

SessNext ==
    \E p \in Sessions :
        \/ SessConfigure(p)
        \/ SessSetLaunch(p)
        \/ SessRun(p)
        \/ SessRestoreConfig(p)
        \/ SessRestoreLaunch(p)

SpecSessions == SessInit /\ [][SessNext]_vars

\* session p has modified the shared state and not yet restored all of it
Holding(p) ==
    pc[p] \in {"s_setlaunch", "s_active", "s_restore_config", "s_restore_launch"}
\* this step is one of session q that modifies or restores the shared state
Touches(q) ==
    /\ pc'[q] # pc[q]
    /\ pc[q] \in {"s_configure", "s_setlaunch", "s_restore_config",
                  "s_restore_launch"}

\* C12 (SpecSessions): while a record session has modified the capture-tool
\* configuration or the launch options and has not restored them, no step of
\* another session modifies or restores that state.
C12_SingleActiveSession ==
    [][ \A p \in Sessions, q \in Sessions :
            (p # q /\ Holding(p)) => ~Touches(q) ]_vars

\* C13: every run benchmark, record and record_manual save is keyed under one
\* of the labels 1920x1080, 2560x1440, 3840x2160, and so is every group the
\* store holds, whatever was entered at the prompt (the entries tried include
\* "9", which the menu does not list).
C13_CanonicalResolutionKeys ==
    /\ \A i \in Ev : IsEv(i, "saverun") => events[i].res \in Canonical
    /\ \A g \in Games : DOMAIN groups[g] \subseteq Canonical
    /\ resolution \in Canonical \cup {"none"}
\* runs were saved under two different labels in one recording session
C13_Witness ==
    \E i \in Ev, j \in Ev :
        /\ IsEv(i, "saverun") /\ IsEv(j, "saverun")
        /\ events[i].res = "1920x1080" /\ events[j].res = "2560x1440"


(***************************************************************************)
(* Text. A Python str is a sequence of one-character strings, so that the  *)
(* str methods the code calls are computed and not assumed.                *)
(***************************************************************************)
\* sub in s
Contains(sub, s) ==
    \E i \in 0..(Len(s) - Len(sub)) : SubSeq(s, i + 1, i + Len(sub)) = sub
\* s.strip() of a text whose only whitespace is the space
Strip(s) ==
    LET RECURSIVE St(_)
        St(t) ==
            IF t = <<>> THEN t
            ELSE IF Head(t) = " " THEN St(Tail(t))
            ELSE IF t[Len(t)] = " " THEN St(SubSeq(t, 1, Len(t) - 1))
            ELSE t
    IN  St(s)
\* s.split(ch)[0]
BeforeFirst(s, ch) ==
    IF \E i \in 1..Len(s) : s[i] = ch
    THEN SubSeq(s, 1, (CHOOSE i \in 1..Len(s) :
                          s[i] = ch /\ \A j \in 1..(i - 1) : s[j] # ch) - 1)
    ELSE s
\* s[:n]
Slice(s, n) == IF Len(s) > n THEN SubSeq(s, 1, n) ELSE s
\* s.split(): the words of s
Split(s) ==
    LET RECURSIVE Sp(_)
        Sp(r) ==
            LET t == Strip(r)
                w == BeforeFirst(t, " ")
            IN  IF t = <<>> THEN <<>>
                ELSE <<w>> \o Sp(SubSeq(t, Len(w) + 1, Len(t)))
    IN  Sp(s)
\* sep.join(words)
Join(sep, words) ==
    LET RECURSIVE Jn(_)
        Jn(ws) ==
            IF ws = <<>> THEN <<>>
            ELSE IF Len(ws) = 1 THEN ws[1]
            ELSE ws[1] \o sep \o Jn(Tail(ws))
    IN  Jn(words)
\* s.capitalize(): the first character upper case, the others lower case
capitalize(s) ==
    LET Lowercase == <<"a", "b", "c", "d", "e", "f", "g", "h", "i", "j", "k",
                       "l", "m", "n", "o", "p", "q", "r", "s", "t", "u", "v",
                       "w", "x", "y", "z">>
        Uppercase == <<"A", "B", "C", "D", "E", "F", "G", "H", "I", "J", "K",
                       "L", "M", "N", "O", "P", "Q", "R", "S", "T", "U", "V",
                       "W", "X", "Y", "Z">>
        Upper(c) ==
            IF \E i \in 1..26 : Lowercase[i] = c
            THEN Uppercase[CHOOSE i \in 1..26 : Lowercase[i] = c] ELSE c
        Lower(c) ==
            IF \E i \in 1..26 : Uppercase[i] = c
            THEN Lowercase[CHOOSE i \in 1..26 : Uppercase[i] = c] ELSE c
    IN  [i \in 1..Len(s) |-> IF i = 1 THEN Upper(s[i]) ELSE Lower(s[i])]


(***************************************************************************)
(* import_benchmarks.py                                                    *)
(***************************************************************************)
\* "Unknown"
Unknown == <<"U", "n", "k", "n", "o", "w", "n">>

\* shorten_gpu(model)
shorten_gpu(model) ==
    IF model = <<>> THEN Unknown
    ELSE IF Contains(<<"7", "9", "0", "0", " ", "X", "T", "X">>, model)
         THEN <<"R", "X", " ", "7", "9", "0", "0", " ", "X", "T", "X">>
    ELSE IF /\ Contains(<<"7", "9", "0", "0", " ", "X", "T">>, model)
            /\ ~Contains(<<"X", "T", "X">>, model)
         THEN <<"R", "X", " ", "7", "9", "0", "0", " ", "X", "T">>
    ELSE IF Contains(<<"7", "8", "0", "0", " ", "X", "T">>, model)
         THEN <<"R", "X", " ", "7", "8", "0", "0", " ", "X", "T">>
    ELSE IF /\ Contains(<<"I", "r", "i", "s">>, model)
            /\ Contains(<<"X", "e">>, model)
         THEN IF Contains(<<"T", "G", "L">>, model)
              THEN <<"I", "r", "i", "s", " ", "X", "e", " ", "(", "T", "G", "L", ")">>
              ELSE <<"I", "r", "i", "s", " ", "X", "e">>
    ELSE IF Contains(<<"R", "T", "X", " ", "4", "0", "9", "0">>, model)
         THEN <<"R", "T", "X", " ", "4", "0", "9", "0">>
    ELSE IF Contains(<<"R", "T", "X", " ", "4", "0", "8", "0">>, model)
         THEN <<"R", "T", "X", " ", "4", "0", "8", "0">>
    ELSE IF Contains(<<"R", "T", "X", " ", "4", "0", "7", "0">>, model)
         THEN <<"R", "T", "X", " ", "4", "0", "7", "0">>
    ELSE Slice(Strip(BeforeFirst(model, "(")), 40)

\* shorten_cpu(model)
shorten_cpu(model) ==
    IF model = <<>> THEN Unknown
    ELSE IF Contains(<<"9", "8", "0", "0", "X", "3", "D">>, model)
         THEN <<"R", "y", "z", "e", "n", " ", "7", " ", "9", "8", "0", "0", "X", "3", "D">>
    ELSE IF Contains(<<"i", "5", "-", "1", "1", "3", "5", "G", "7">>, model)
         THEN <<"i", "5", "-", "1", "1", "3", "5", "G", "7">>
    ELSE Join(<<" ">>, Slice(Split(model), 4))

\* gpu.model of the system_info.json files imported; the last two: no key (.get("model", "Unknown")) and an empty string
GpuModels ==
    {
    \* "AMD Radeon RX 7900 XTX (radeonsi, navi31)"
      <<"A", "M", "D", " ", "R", "a", "d", "e", "o", "n", " ", "R", "X", " ", "7", "9", "0", "0", " ", "X", "T", "X", " ", "(", "r", "a", "d", "e", "o", "n", "s", "i", ",", " ", "n", "a", "v", "i", "3", "1", ")">>,
    \* "AMD Radeon RX 7900 XT"
      <<"A", "M", "D", " ", "R", "a", "d", "e", "o", "n", " ", "R", "X", " ", "7", "9", "0", "0", " ", "X", "T">>,
    \* "Intel Iris Xe Graphics (TGL GT2)"
      <<"I", "n", "t", "e", "l", " ", "I", "r", "i", "s", " ", "X", "e", " ", "G", "r", "a", "p", "h", "i", "c", "s", " ", "(", "T", "G", "L", " ", "G", "T", "2", ")">>,
    \* "AMD Radeon RX 6800 XT (radeonsi, navi21)"
      <<"A", "M", "D", " ", "R", "a", "d", "e", "o", "n", " ", "R", "X", " ", "6", "8", "0", "0", " ", "X", "T", " ", "(", "r", "a", "d", "e", "o", "n", "s", "i", ",", " ", "n", "a", "v", "i", "2", "1", ")">>,
    \* "Advanced Micro Devices Radeon Pro W6600 Workstation"
      <<"A", "d", "v", "a", "n", "c", "e", "d", " ", "M", "i", "c", "r", "o", " ", "D", "e", "v", "i", "c", "e", "s", " ", "R", "a", "d", "e", "o", "n", " ", "P", "r", "o", " ", "W", "6", "6", "0", "0", " ", "W", "o", "r", "k", "s", "t", "a", "t", "i", "o", "n">>,
    \* "(llvmpipe)"
      <<"(", "l", "l", "v", "m", "p", "i", "p", "e", ")">>,
      Unknown,
      <<>> }
\* cpu.model of the files imported; the last: no key
CpuModels ==
    {
    \* "AMD Ryzen 7 9800X3D 8-Core Processor"
      <<"A", "M", "D", " ", "R", "y", "z", "e", "n", " ", "7", " ", "9", "8", "0", "0", "X", "3", "D", " ", "8", "-", "C", "o", "r", "e", " ", "P", "r", "o", "c", "e", "s", "s", "o", "r">>,
    \* "AMD Ryzen 9 7950X 16-Core Processor"
      <<"A", "M", "D", " ", "R", "y", "z", "e", "n", " ", "9", " ", "7", "9", "5", "0", "X", " ", "1", "6", "-", "C", "o", "r", "e", " ", "P", "r", "o", "c", "e", "s", "s", "o", "r">>,
      Unknown }
\* os.name of the files imported; the last: no key (.get("name", "Linux"))
OsNames ==
    {
    \* "CachyOS"
      <<"C", "a", "c", "h", "y", "O", "S">>,
      <<"L", "i", "n", "u", "x">> }

\* hashlib.md5(text.encode()).hexdigest()[:8] of the texts the import hashes,
\* as hashlib computes them
Md5Table == {
    \* "CachyOS__AMD Ryzen 9 7950X"
    <<<<"C", "a", "c", "h", "y", "O", "S", "_", "_", "A", "M", "D", " ", "R", "y", "z", "e", "n", " ", "9", " ", "7", "9", "5", "0", "X">>,
      "4d14c93a">>,
    \* "CachyOS__Ryzen 7 9800X3D"
    <<<<"C", "a", "c", "h", "y", "O", "S", "_", "_", "R", "y", "z", "e", "n", " ", "7", " ", "9", "8", "0", "0", "X", "3", "D">>,
      "d7f338c4">>,
    \* "CachyOS__Unknown"
    <<<<"C", "a", "c", "h", "y", "O", "S", "_", "_", "U", "n", "k", "n", "o", "w", "n">>,
      "6daf80ed">>,
    \* "CachyOS_AMD Radeon RX 6800 XT_AMD Ryzen 9 7950X"
    <<<<"C", "a", "c", "h", "y", "O", "S", "_", "A", "M", "D", " ", "R", "a", "d", "e", "o", "n", " ", "R", "X", " ", "6", "8", "0", "0", " ", "X", "T", "_", "A", "M", "D", " ", "R", "y", "z", "e", "n", " ", "9", " ", "7", "9", "5", "0", "X">>,
      "f81214c4">>,
    \* "CachyOS_AMD Radeon RX 6800 XT_Ryzen 7 9800X3D"
    <<<<"C", "a", "c", "h", "y", "O", "S", "_", "A", "M", "D", " ", "R", "a", "d", "e", "o", "n", " ", "R", "X", " ", "6", "8", "0", "0", " ", "X", "T", "_", "R", "y", "z", "e", "n", " ", "7", " ", "9", "8", "0", "0", "X", "3", "D">>,
      "ccc6acd6">>,
    \* "CachyOS_AMD Radeon RX 6800 XT_Unknown"
    <<<<"C", "a", "c", "h", "y", "O", "S", "_", "A", "M", "D", " ", "R", "a", "d", "e", "o", "n", " ", "R", "X", " ", "6", "8", "0", "0", " ", "X", "T", "_", "U", "n", "k", "n", "o", "w", "n">>,
      "7e711021">>,
    \* "CachyOS_Advanced Micro Devices Radeon Pro W6600_AMD Ryzen 9 7950X"
    <<<<"C", "a", "c", "h", "y", "O", "S", "_", "A", "d", "v", "a", "n", "c", "e", "d", " ", "M", "i", "c", "r", "o", " ", "D", "e", "v", "i", "c", "e", "s", " ", "R", "a", "d", "e", "o", "n", " ", "P", "r", "o", " ", "W", "6", "6", "0", "0", "_", "A", "M", "D", " ", "R", "y", "z", "e", "n", " ", "9", " ", "7", "9", "5", "0", "X">>,
      "9c15346e">>,
    \* "CachyOS_Advanced Micro Devices Radeon Pro W6600_Ryzen 7 9800X3D"
    <<<<"C", "a", "c", "h", "y", "O", "S", "_", "A", "d", "v", "a", "n", "c", "e", "d", " ", "M", "i", "c", "r", "o", " ", "D", "e", "v", "i", "c", "e", "s", " ", "R", "a", "d", "e", "o", "n", " ", "P", "r", "o", " ", "W", "6", "6", "0", "0", "_", "R", "y", "z", "e", "n", " ", "7", " ", "9", "8", "0", "0", "X", "3", "D">>,
      "f63f7618">>,
    \* "CachyOS_Advanced Micro Devices Radeon Pro W6600_Unknown"
    <<<<"C", "a", "c", "h", "y", "O", "S", "_", "A", "d", "v", "a", "n", "c", "e", "d", " ", "M", "i", "c", "r", "o", " ", "D", "e", "v", "i", "c", "e", "s", " ", "R", "a", "d", "e", "o", "n", " ", "P", "r", "o", " ", "W", "6", "6", "0", "0", "_", "U", "n", "k", "n", "o", "w", "n">>,
      "ba5ee0dd">>,
    \* "CachyOS_Advanced Micro Devices Radeon Pro W6600 _AMD Ryzen 9 7950X"
    <<<<"C", "a", "c", "h", "y", "O", "S", "_", "A", "d", "v", "a", "n", "c", "e", "d", " ", "M", "i", "c", "r", "o", " ", "D", "e", "v", "i", "c", "e", "s", " ", "R", "a", "d", "e", "o", "n", " ", "P", "r", "o", " ", "W", "6", "6", "0", "0", " ", "_", "A", "M", "D", " ", "R", "y", "z", "e", "n", " ", "9", " ", "7", "9", "5", "0", "X">>,
      "58b23c75">>,
    \* "CachyOS_Advanced Micro Devices Radeon Pro W6600 _Ryzen 7 9800X3D"
    <<<<"C", "a", "c", "h", "y", "O", "S", "_", "A", "d", "v", "a", "n", "c", "e", "d", " ", "M", "i", "c", "r", "o", " ", "D", "e", "v", "i", "c", "e", "s", " ", "R", "a", "d", "e", "o", "n", " ", "P", "r", "o", " ", "W", "6", "6", "0", "0", " ", "_", "R", "y", "z", "e", "n", " ", "7", " ", "9", "8", "0", "0", "X", "3", "D">>,
      "c430c733">>,
    \* "CachyOS_Advanced Micro Devices Radeon Pro W6600 _Unknown"
    <<<<"C", "a", "c", "h", "y", "O", "S", "_", "A", "d", "v", "a", "n", "c", "e", "d", " ", "M", "i", "c", "r", "o", " ", "D", "e", "v", "i", "c", "e", "s", " ", "R", "a", "d", "e", "o", "n", " ", "P", "r", "o", " ", "W", "6", "6", "0", "0", " ", "_", "U", "n", "k", "n", "o", "w", "n">>,
      "d83afabb">>,
    \* "CachyOS_Iris Xe (TGL)_AMD Ryzen 9 7950X"
    <<<<"C", "a", "c", "h", "y", "O", "S", "_", "I", "r", "i", "s", " ", "X", "e", " ", "(", "T", "G", "L", ")", "_", "A", "M", "D", " ", "R", "y", "z", "e", "n", " ", "9", " ", "7", "9", "5", "0", "X">>,
      "6bfd31a5">>,
    \* "CachyOS_Iris Xe (TGL)_Ryzen 7 9800X3D"
    <<<<"C", "a", "c", "h", "y", "O", "S", "_", "I", "r", "i", "s", " ", "X", "e", " ", "(", "T", "G", "L", ")", "_", "R", "y", "z", "e", "n", " ", "7", " ", "9", "8", "0", "0", "X", "3", "D">>,
      "0dc10f81">>,
    \* "CachyOS_Iris Xe (TGL)_Unknown"
    <<<<"C", "a", "c", "h", "y", "O", "S", "_", "I", "r", "i", "s", " ", "X", "e", " ", "(", "T", "G", "L", ")", "_", "U", "n", "k", "n", "o", "w", "n">>,
      "85218531">>,
    \* "CachyOS_RX 7900 XT_AMD Ryzen 9 7950X"
    <<<<"C", "a", "c", "h", "y", "O", "S", "_", "R", "X", " ", "7", "9", "0", "0", " ", "X", "T", "_", "A", "M", "D", " ", "R", "y", "z", "e", "n", " ", "9", " ", "7", "9", "5", "0", "X">>,
      "7aaa079a">>,
    \* "CachyOS_RX 7900 XT_Ryzen 7 9800X3D"
    <<<<"C", "a", "c", "h", "y", "O", "S", "_", "R", "X", " ", "7", "9", "0", "0", " ", "X", "T", "_", "R", "y", "z", "e", "n", " ", "7", " ", "9", "8", "0", "0", "X", "3", "D">>,
      "5f647bea">>,
    \* "CachyOS_RX 7900 XT_Unknown"
    <<<<"C", "a", "c", "h", "y", "O", "S", "_", "R", "X", " ", "7", "9", "0", "0", " ", "X", "T", "_", "U", "n", "k", "n", "o", "w", "n">>,
      "ecbb1e77">>,
    \* "CachyOS_RX 7900 XTX_AMD Ryzen 9 7950X"
    <<<<"C", "a", "c", "h", "y", "O", "S", "_", "R", "X", " ", "7", "9", "0", "0", " ", "X", "T", "X", "_", "A", "M", "D", " ", "R", "y", "z", "e", "n", " ", "9", " ", "7", "9", "5", "0", "X">>,
      "3b269a72">>,
    \* "CachyOS_RX 7900 XTX_Ryzen 7 9800X3D"
    <<<<"C", "a", "c", "h", "y", "O", "S", "_", "R", "X", " ", "7", "9", "0", "0", " ", "X", "T", "X", "_", "R", "y", "z", "e", "n", " ", "7", " ", "9", "8", "0", "0", "X", "3", "D">>,
      "3dd2687a">>,
    \* "CachyOS_RX 7900 XTX_Unknown"
    <<<<"C", "a", "c", "h", "y", "O", "S", "_", "R", "X", " ", "7", "9", "0", "0", " ", "X", "T", "X", "_", "U", "n", "k", "n", "o", "w", "n">>,
      "4d01f9b1">>,
    \* "CachyOS_Unknown_AMD Ryzen 9 7950X"
    <<<<"C", "a", "c", "h", "y", "O", "S", "_", "U", "n", "k", "n", "o", "w", "n", "_", "A", "M", "D", " ", "R", "y", "z", "e", "n", " ", "9", " ", "7", "9", "5", "0", "X">>,
      "c387b59b">>,
    \* "CachyOS_Unknown_Ryzen 7 9800X3D"
    <<<<"C", "a", "c", "h", "y", "O", "S", "_", "U", "n", "k", "n", "o", "w", "n", "_", "R", "y", "z", "e", "n", " ", "7", " ", "9", "8", "0", "0", "X", "3", "D">>,
      "29084de2">>,
    \* "CachyOS_Unknown_Unknown"
    <<<<"C", "a", "c", "h", "y", "O", "S", "_", "U", "n", "k", "n", "o", "w", "n", "_", "U", "n", "k", "n", "o", "w", "n">>,
      "72c5289c">>,
    \* "Linux__AMD Ryzen 9 7950X"
    <<<<"L", "i", "n", "u", "x", "_", "_", "A", "M", "D", " ", "R", "y", "z", "e", "n", " ", "9", " ", "7", "9", "5", "0", "X">>,
      "0d6301e1">>,
    \* "Linux__Ryzen 7 9800X3D"
    <<<<"L", "i", "n", "u", "x", "_", "_", "R", "y", "z", "e", "n", " ", "7", " ", "9", "8", "0", "0", "X", "3", "D">>,
      "cefbe0d5">>,
    \* "Linux__Unknown"
    <<<<"L", "i", "n", "u", "x", "_", "_", "U", "n", "k", "n", "o", "w", "n">>,
      "6a06b09b">>,
    \* "Linux_AMD Radeon RX 6800 XT_AMD Ryzen 9 7950X"
    <<<<"L", "i", "n", "u", "x", "_", "A", "M", "D", " ", "R", "a", "d", "e", "o", "n", " ", "R", "X", " ", "6", "8", "0", "0", " ", "X", "T", "_", "A", "M", "D", " ", "R", "y", "z", "e", "n", " ", "9", " ", "7", "9", "5", "0", "X">>,
      "f067f62d">>,
    \* "Linux_AMD Radeon RX 6800 XT_Ryzen 7 9800X3D"
    <<<<"L", "i", "n", "u", "x", "_", "A", "M", "D", " ", "R", "a", "d", "e", "o", "n", " ", "R", "X", " ", "6", "8", "0", "0", " ", "X", "T", "_", "R", "y", "z", "e", "n", " ", "7", " ", "9", "8", "0", "0", "X", "3", "D">>,
      "9d3ba337">>,
    \* "Linux_AMD Radeon RX 6800 XT_Unknown"
    <<<<"L", "i", "n", "u", "x", "_", "A", "M", "D", " ", "R", "a", "d", "e", "o", "n", " ", "R", "X", " ", "6", "8", "0", "0", " ", "X", "T", "_", "U", "n", "k", "n", "o", "w", "n">>,
      "325b7f3b">>,
    \* "Linux_Advanced Micro Devices Radeon Pro W6600_AMD Ryzen 9 7950X"
    <<<<"L", "i", "n", "u", "x", "_", "A", "d", "v", "a", "n", "c", "e", "d", " ", "M", "i", "c", "r", "o", " ", "D", "e", "v", "i", "c", "e", "s", " ", "R", "a", "d", "e", "o", "n", " ", "P", "r", "o", " ", "W", "6", "6", "0", "0", "_", "A", "M", "D", " ", "R", "y", "z", "e", "n", " ", "9", " ", "7", "9", "5", "0", "X">>,
      "006e92c7">>,
    \* "Linux_Advanced Micro Devices Radeon Pro W6600_Ryzen 7 9800X3D"
    <<<<"L", "i", "n", "u", "x", "_", "A", "d", "v", "a", "n", "c", "e", "d", " ", "M", "i", "c", "r", "o", " ", "D", "e", "v", "i", "c", "e", "s", " ", "R", "a", "d", "e", "o", "n", " ", "P", "r", "o", " ", "W", "6", "6", "0", "0", "_", "R", "y", "z", "e", "n", " ", "7", " ", "9", "8", "0", "0", "X", "3", "D">>,
      "8d04a9f9">>,
    \* "Linux_Advanced Micro Devices Radeon Pro W6600_Unknown"
    <<<<"L", "i", "n", "u", "x", "_", "A", "d", "v", "a", "n", "c", "e", "d", " ", "M", "i", "c", "r", "o", " ", "D", "e", "v", "i", "c", "e", "s", " ", "R", "a", "d", "e", "o", "n", " ", "P", "r", "o", " ", "W", "6", "6", "0", "0", "_", "U", "n", "k", "n", "o", "w", "n">>,
      "887bbc71">>,
    \* "Linux_Advanced Micro Devices Radeon Pro W6600 _AMD Ryzen 9 7950X"
    <<<<"L", "i", "n", "u", "x", "_", "A", "d", "v", "a", "n", "c", "e", "d", " ", "M", "i", "c", "r", "o", " ", "D", "e", "v", "i", "c", "e", "s", " ", "R", "a", "d", "e", "o", "n", " ", "P", "r", "o", " ", "W", "6", "6", "0", "0", " ", "_", "A", "M", "D", " ", "R", "y", "z", "e", "n", " ", "9", " ", "7", "9", "5", "0", "X">>,
      "ea3bfc7d">>,
    \* "Linux_Advanced Micro Devices Radeon Pro W6600 _Ryzen 7 9800X3D"
    <<<<"L", "i", "n", "u", "x", "_", "A", "d", "v", "a", "n", "c", "e", "d", " ", "M", "i", "c", "r", "o", " ", "D", "e", "v", "i", "c", "e", "s", " ", "R", "a", "d", "e", "o", "n", " ", "P", "r", "o", " ", "W", "6", "6", "0", "0", " ", "_", "R", "y", "z", "e", "n", " ", "7", " ", "9", "8", "0", "0", "X", "3", "D">>,
      "90bef74d">>,
    \* "Linux_Advanced Micro Devices Radeon Pro W6600 _Unknown"
    <<<<"L", "i", "n", "u", "x", "_", "A", "d", "v", "a", "n", "c", "e", "d", " ", "M", "i", "c", "r", "o", " ", "D", "e", "v", "i", "c", "e", "s", " ", "R", "a", "d", "e", "o", "n", " ", "P", "r", "o", " ", "W", "6", "6", "0", "0", " ", "_", "U", "n", "k", "n", "o", "w", "n">>,
      "7a19c79e">>,
    \* "Linux_Iris Xe (TGL)_AMD Ryzen 9 7950X"
    <<<<"L", "i", "n", "u", "x", "_", "I", "r", "i", "s", " ", "X", "e", " ", "(", "T", "G", "L", ")", "_", "A", "M", "D", " ", "R", "y", "z", "e", "n", " ", "9", " ", "7", "9", "5", "0", "X">>,
      "3d325a44">>,
    \* "Linux_Iris Xe (TGL)_Ryzen 7 9800X3D"
    <<<<"L", "i", "n", "u", "x", "_", "I", "r", "i", "s", " ", "X", "e", " ", "(", "T", "G", "L", ")", "_", "R", "y", "z", "e", "n", " ", "7", " ", "9", "8", "0", "0", "X", "3", "D">>,
      "8c54de0f">>,
    \* "Linux_Iris Xe (TGL)_Unknown"
    <<<<"L", "i", "n", "u", "x", "_", "I", "r", "i", "s", " ", "X", "e", " ", "(", "T", "G", "L", ")", "_", "U", "n", "k", "n", "o", "w", "n">>,
      "0ba2a599">>,
    \* "Linux_RX 7900 XT_AMD Ryzen 9 7950X"
    <<<<"L", "i", "n", "u", "x", "_", "R", "X", " ", "7", "9", "0", "0", " ", "X", "T", "_", "A", "M", "D", " ", "R", "y", "z", "e", "n", " ", "9", " ", "7", "9", "5", "0", "X">>,
      "97005b08">>,
    \* "Linux_RX 7900 XT_Ryzen 7 9800X3D"
    <<<<"L", "i", "n", "u", "x", "_", "R", "X", " ", "7", "9", "0", "0", " ", "X", "T", "_", "R", "y", "z", "e", "n", " ", "7", " ", "9", "8", "0", "0", "X", "3", "D">>,
      "d4ede6f7">>,
    \* "Linux_RX 7900 XT_Unknown"
    <<<<"L", "i", "n", "u", "x", "_", "R", "X", " ", "7", "9", "0", "0", " ", "X", "T", "_", "U", "n", "k", "n", "o", "w", "n">>,
      "affc66ff">>,
    \* "Linux_RX 7900 XTX_AMD Ryzen 9 7950X"
    <<<<"L", "i", "n", "u", "x", "_", "R", "X", " ", "7", "9", "0", "0", " ", "X", "T", "X", "_", "A", "M", "D", " ", "R", "y", "z", "e", "n", " ", "9", " ", "7", "9", "5", "0", "X">>,
      "fceed7b7">>,
    \* "Linux_RX 7900 XTX_Ryzen 7 9800X3D"
    <<<<"L", "i", "n", "u", "x", "_", "R", "X", " ", "7", "9", "0", "0", " ", "X", "T", "X", "_", "R", "y", "z", "e", "n", " ", "7", " ", "9", "8", "0", "0", "X", "3", "D">>,
      "5794a38b">>,
    \* "Linux_RX 7900 XTX_Unknown"
    <<<<"L", "i", "n", "u", "x", "_", "R", "X", " ", "7", "9", "0", "0", " ", "X", "T", "X", "_", "U", "n", "k", "n", "o", "w", "n">>,
      "4e3caa95">>,
    \* "Linux_Unknown_AMD Ryzen 9 7950X"
    <<<<"L", "i", "n", "u", "x", "_", "U", "n", "k", "n", "o", "w", "n", "_", "A", "M", "D", " ", "R", "y", "z", "e", "n", " ", "9", " ", "7", "9", "5", "0", "X">>,
      "67ada844">>,
    \* "Linux_Unknown_Ryzen 7 9800X3D"
    <<<<"L", "i", "n", "u", "x", "_", "U", "n", "k", "n", "o", "w", "n", "_", "R", "y", "z", "e", "n", " ", "7", " ", "9", "8", "0", "0", "X", "3", "D">>,
      "5e8454ac">>,
    \* "Linux_Unknown_Unknown"
    <<<<"L", "i", "n", "u", "x", "_", "U", "n", "k", "n", "o", "w", "n", "_", "U", "n", "k", "n", "o", "w", "n">>,
      "1ab81118">>
    }
md5_hexdigest8(text) == (CHOOSE e \in Md5Table : e[1] = text)[2]

\* the GPU and CPU models as the import stores them
NormalizedGpus == {shorten_gpu(g) : g \in GpuModels}
NormalizedCpus == {shorten_cpu(c) : c \in CpuModels}

\* a variant that hashes the default OS name whatever the system's
system_hash_default_os(os_name, gpu, cpu) ==
    md5_hexdigest8(<<"L", "i", "n", "u", "x", "_">> \o gpu \o <<"_">> \o cpu)

\* system_hash = hashlib.md5(f"{os_name}_{gpu}_{cpu}".encode()).hexdigest()[:8]
system_hash(os_name, gpu, cpu) ==
    md5_hexdigest8(os_name \o <<"_">> \o gpu \o <<"_">> \o cpu)


\* RES_MAP
RES_MAP_keys == {"3840x2160", "2560x1440", "1920x1080"}
RES_MAP(name) ==
    CASE name = "3840x2160" -> "UHD"
      [] name = "2560x1440" -> "WQHD"
      [] name = "1920x1080" -> "FHD"
RES_MAP_values == {RES_MAP(k) : k \in RES_MAP_keys}
\* if res_dir.name not in ('FHD', 'WQHD', 'UHD', '1920x1080', ...): continue
ImportedResDirs == {"FHD", "WQHD", "UHD", "1920x1080", "2560x1440", "3840x2160"}
\* the directory names met in a system directory
ResDirNames == ImportedResDirs \cup {"4K", "1280x720"}

\* resolution = res_dir.name
\* if resolution not in RES_MAP.values():
\*     resolution = RES_MAP.get(resolution, resolution)
normalize_resolution(name) ==
    IF name \notin RES_MAP_values
    THEN IF name \in RES_MAP_keys THEN RES_MAP(name) ELSE name
    ELSE name

(***************************************************************************)
(* Frame times. A frame time is a decimal number of milliseconds, held as  *)
(* its whole part and the digits after the point, as repr() prints it.     *)
(***************************************************************************)
\* longest frametimes list of a run file
MaxFrames == 2
Ms(whole, frac) == [whole |-> whole, frac |-> frac]
\* 16.07, 120.0
FrameTimeValues == {Ms(16, <<0, 7>>), Ms(120, <<0>>)}
FrameTimeLists ==
    UNION {[1..n -> FrameTimeValues] : n \in 0..MaxFrames}

\* json.dumps(frametimes): "[16.07, 120.0]"; a number is printed by
\* float.__repr__
json_dumps(frametimes) ==
    LET Digits == <<"0", "1", "2", "3", "4", "5", "6", "7", "8", "9">>
        RECURSIVE NatText(_)
        NatText(k) == IF k < 10 THEN <<Digits[k + 1]>>
                      ELSE NatText(k \div 10) \o <<Digits[(k % 10) + 1]>>
        FloatText(x) ==
            NatText(x.whole) \o <<".">>
                \o [i \in 1..Len(x.frac) |-> Digits[x.frac[i] + 1]]
    IN  <<"[">> \o Join(<<",", " ">>, [i \in 1..Len(frametimes) |->
                                         FloatText(frametimes[i])]) \o <<"]">>
\* json.loads(text) of a list of numbers
json_loads(text) ==
    LET Digits == <<"0", "1", "2", "3", "4", "5", "6", "7", "8", "9">>
        DigitOf(c) == (CHOOSE d \in 1..10 : Digits[d] = c) - 1
        RECURSIVE TextNat(_)
        TextNat(t) == IF t = <<>> THEN 0
                      ELSE 10 * TextNat(SubSeq(t, 1, Len(t) - 1))
                               + DigitOf(t[Len(t)])
        TextFloat(t) ==
            LET w == BeforeFirst(t, ".")
                f == SubSeq(t, Len(w) + 2, Len(t))
            IN  Ms(TextNat(w), [i \in 1..Len(f) |-> DigitOf(f[i])])
        RECURSIVE Items(_)
        Items(t) ==
            LET r == Strip(t)
                item == BeforeFirst(r, ",")
            IN  IF r = <<>> THEN <<>>
                ELSE <<TextFloat(item)>> \o Items(SubSeq(r, Len(item) + 2, Len(r)))
    IN  Items(SubSeq(text, 2, Len(text) - 1))

\* gzip.compress and base64.b64encode are lossless encodings of the standard
\* library; their output is kept as the encoded value in an envelope
gzip_compress(data) == <<"gzip", data>>
b64encode(data) == <<"base64", data>>

\* a variant that keeps one digit after the point
compress_frametimes_rounded(frametimes) ==
    IF frametimes = <<>> THEN <<>>
    ELSE b64encode(gzip_compress(json_dumps(
            [i \in 1..Len(frametimes) |->
                Ms(frametimes[i].whole, <<frametimes[i].frac[1]>>)])))

\* compress_frametimes(frametimes)
compress_frametimes(frametimes) ==
    IF frametimes = <<>> THEN <<>>
    ELSE b64encode(gzip_compress(json_dumps(frametimes)))

\* the reader of frametimes_compressed, not part of the sources at hand:
\* b64decode, gzip.decompress, json.loads; a run stored without frame times
\* has none
decompress_frametimes(text) ==
    IF text = <<>> THEN <<>> ELSE json_loads(text[2][2])

\* the ratings an analysis gives: "excellent", "good", "moderate", "poor"
\* (tests/conftest.py:43-44, cli.py:819)
Ratings ==
    { <<"e", "x", "c", "e", "l", "l", "e", "n", "t">>,
      <<"g", "o", "o", "d">>,
      <<"m", "o", "d", "e", "r", "a", "t", "e">>,
      <<"p", "o", "o", "r">> }
\* a run file without the key: stutter.get("stutter_rating") is None
NoRating == <<>>

\* (rating or "").capitalize()
stored_rating(rating) == capitalize(rating)

(***************************************************************************)
(* SpecImport: import_benchmarks() over one system directory holding one   *)
(* resolution directory with one run file. `input` is what the files hold, *)
(* `events` the rows inserted.                                             *)
(***************************************************************************)
EvInsertSystem(hash, os_name, gpu, cpu) ==
    [op |-> "insert_system", system_hash |-> hash, os |-> os_name,
     gpu |-> gpu, cpu |-> cpu]
EvInsertGroup(res) == [op |-> "insert_group", resolution |-> res]
EvInsertRun(stutter, pacing, compressed) ==
    [op |-> "insert_run", stutter_rating |-> stutter,
     consistency_rating |-> pacing, frametimes_compressed |-> compressed]

ImportInputs ==
    [os : OsNames, gpu : GpuModels, cpu : CpuModels, res_dir : ResDirNames,
     stutter_rating : Ratings \cup {NoRating},
     consistency_rating : {<<"g", "o", "o", "d">>, NoRating},
     frametimes : FrameTimeLists]

ImportInit ==
    /\ cmd = "import" /\ pc = "i_system"
    /\ input \in ImportInputs
    /\ curFp = "fpA" /\ target = "g1"
    /\ exitCode = 0 /\ pending = "none" /\ cancelled = FALSE
    /\ fpSaved = [g \in Games |-> NoFp]
    /\ groups = [g \in Games |-> EmptyMap]
    /\ archives = [g \in Games |-> <<>>]
    /\ IdleTool /\ IdleDir /\ IdleRec /\ IdleBench
    /\ events = <<>>

ImportFrame ==
    UNCHANGED <<storeVars, constVars, exitCode, pending, cancelled, toolVars,
                dirVars, recVars, benchVars>>

\* gpu = shorten_gpu(...); cpu = shorten_cpu(...); system_hash; INSERT INTO systems
ImportSystem ==
    /\ pc = "i_system"
    /\ LET gpu == shorten_gpu(input.gpu)
           cpu == shorten_cpu(input.cpu)
       IN  events' = Append(events,
               EvInsertSystem(system_hash(input.os, gpu, cpu), input.os, gpu, cpu))
    /\ pc' = "i_resdir"
    /\ ImportFrame

\* for res_dir in system_dir.iterdir(): a directory of another name is
\* skipped; INSERT INTO benchmark_groups
ImportResDir ==
    /\ pc = "i_resdir"
    /\ IF input.res_dir \in ImportedResDirs
       THEN /\ events' = Append(events,
                            EvInsertGroup(normalize_resolution(input.res_dir)))
            /\ pc' = "i_run"
       ELSE /\ pc' = "i_done"
            /\ UNCHANGED events
    /\ ImportFrame

\* for run_file in sorted(res_dir.glob("run_*.json")): INSERT INTO runs
ImportRun ==
    /\ pc = "i_run"
    /\ events' = Append(events,
          EvInsertRun(stored_rating(input.stutter_rating),
                      stored_rating(input.consistency_rating),
                      compress_frametimes(input.frametimes)))
    /\ pc' = "i_done"
    /\ ImportFrame

ImportNext == ImportSystem \/ ImportResDir \/ ImportRun

SpecImport == ImportInit /\ [][ImportNext]_vars

\* the row of the given kind the import has inserted
Inserted(op) == \E i \in Ev : IsEv(i, op)
Row(op) == events[CHOOSE i \in Ev : IsEv(i, op)]

\* C14 (SpecImport): the resolution a group is stored under is 1920x1080 for
\* the directory FHD, 2560x1440 for WQHD and 3840x2160 for UHD; a canonical
\* label is kept unchanged; any other name passes unchanged; and normalizing
\* the stored resolution again gives the same.
C14_ResolutionNormalization ==
    /\ Inserted("insert_group") =>
          LET name == input.res_dir
              stored == Row("insert_group").resolution
          IN  /\ name = "FHD" => stored = "1920x1080"
              /\ name = "WQHD" => stored = "2560x1440"
              /\ name = "UHD" => stored = "3840x2160"
              /\ name \in Canonical => stored = name
              /\ normalize_resolution(stored) = stored
    /\ \A name \in ResDirNames \ ImportedResDirs :
          normalize_resolution(name) = name

C19_ShortenGpuIdempotent ==
    Inserted("insert_system") =>
        /\ Row("insert_system").gpu = shorten_gpu(input.gpu)
        /\ shorten_gpu(Row("insert_system").gpu) = Row("insert_system").gpu

\* C20 (SpecImport): the stutter rating and the pacing rating stored with a
\* run are each one of excellent, good, moderate, poor, written as the
\* analysis writes them and as the commands look them up, and never empty.
C20_CanonicalRatings ==
    Inserted("insert_run") =>
        /\ Row("insert_run").stutter_rating \in Ratings
        /\ Row("insert_run").consistency_rating \in Ratings

(***************************************************************************)
(* SpecAggregate: runs of one game and resolution are saved, then upload   *)
(* aggregates them (cli.py:1346-1351).  storage.aggregate_runs is not part *)
(* of the sources at hand; it follows section 4.3 of the specification.    *)
(***************************************************************************)
MaxRuns == 3

\* the ordered scale of ratings, best first
RatingScale == <<"excellent", "good", "moderate", "poor">>
Severity(rating) == CHOOSE k \in 1..Len(RatingScale) : RatingScale[k] = rating

\* the metrics of the runs saved: fps statistics and the two ratings
RunMetrics ==
    { [average |-> f[1], minimum |-> f[2], maximum |-> f[3],
       stutter_rating |-> r[1], consistency_rating |-> r[2]] :
        f \in {<<58, 40, 70>>, <<60, 35, 90>>, <<62, 50, 75>>, <<120, 55, 144>>},
        r \in {<<"excellent", "poor">>, <<"good", "moderate">>,
               <<"moderate", "excellent">>, <<"poor", "good">>} }

\* sorted(values)
sorted(values) ==
    LET RECURSIVE Insert(_, _)
        Insert(x, s) == IF s = <<>> THEN <<x>>
                        ELSE IF x <= Head(s) THEN <<x>> \o s
                        ELSE <<Head(s)>> \o Insert(x, Tail(s))
        RECURSIVE Sort(_)
        Sort(s) == IF s = <<>> THEN <<>> ELSE Insert(Head(s), Sort(Tail(s)))
    IN  Sort(values)

\* mean of a non-empty list (whole part)
mean(values) ==
    LET RECURSIVE Sum(_)
        Sum(s) == IF s = <<>> THEN 0 ELSE Head(s) + Sum(Tail(s))
    IN  Sum(values) \div Len(values)

\* median of a non-empty list: the middle value, for even counts the
\* average of the two middle values
median(values) ==
    LET s == sorted(values)
        n == Len(s)
    IN  IF n % 2 = 1 THEN s[(n + 1) \div 2]
        ELSE (s[n \div 2] + s[(n \div 2) + 1]) \div 2

\* the rating of the first run
first_rating(ratings) == ratings[1]

\* the most severe rating of a non-empty list
worst_rating(ratings) ==
    RatingScale[sorted([i \in 1..Len(ratings) |-> Severity(ratings[i])])[Len(ratings)]]

\* aggregate_runs(runs) for a non-empty list of runs
aggregate_runs(runs) ==
    LET col(field) == [i \in 1..Len(runs) |-> runs[i][field]]
    IN  [average |-> median(col("average")),
         minimum |-> sorted(col("minimum"))[1],
         maximum |-> sorted(col("maximum"))[Len(runs)],
         stutter_rating |-> worst_rating(col("stutter_rating")),
         consistency_rating |-> worst_rating(col("consistency_rating"))]

\* upload_benchmark(..., resolution, ..., metrics)
EvUpload(g, res, runs, metrics) ==
    [op |-> "upload", game |-> g, res |-> res, runs |-> runs, metrics |-> metrics]

AggInit ==
    /\ fpSaved = [g \in Games |-> NoFp]
    /\ groups = [g \in Games |-> EmptyMap]
    /\ archives = [g \in Games |-> <<>>]
    /\ cmd = "upload" /\ pc = "saving" /\ curFp = "fpA" /\ target = "g1"
    /\ input = "none"
    /\ exitCode = 0 /\ pending = "none" /\ cancelled = FALSE
    /\ IdleTool /\ IdleDir /\ IdleRec /\ IdleBench
    /\ events = <<>>

\* an earlier session saves one more run of the game
AggSaveRun(res, m) ==
    /\ pc = "saving"
    /\ Len(events) < MaxRuns
    /\ groups' = save_run(target, res, m)
    /\ events' = Append(events, EvSaveRun(target, res, m))
    /\ UNCHANGED <<fpSaved, archives, cliVars>>
    /\ UNCHANGED <<toolVars, dirVars, recVars, benchVars>>

\* upload: for resolution, runs in resolutions.items(): skip the empty
\* ones, aggregate the others and upload the aggregate
AggUpload ==
    /\ pc = "saving"
    /\ pc' = "uploaded"
    /\ LET resolutions == get_all_resolutions(target)
           todoRes == {r \in DOMAIN resolutions : resolutions[r] # <<>>}
           RECURSIVE Uploads(_)
           Uploads(rs) ==
               IF rs = {} THEN <<>>
               ELSE LET r == CHOOSE x \in rs : TRUE
                    IN  <<EvUpload(target, r, resolutions[r],
                                   aggregate_runs(resolutions[r]))>>
                            \o Uploads(rs \ {r})
       IN  events' = events \o Uploads(todoRes)
    /\ UNCHANGED <<storeVars, constVars, exitCode, pending, cancelled>>
    /\ UNCHANGED <<toolVars, dirVars, recVars, benchVars>>

AggNext ==
    \/ \E m \in RunMetrics : AggSaveRun("1920x1080", m)
    \/ AggUpload

SpecAggregate == AggInit /\ [][AggNext]_vars

\* the uploads made
Uploaded == {e \in {events[i] : i \in 1..Len(events)} : e.op = "upload"}
\* the values of one field in the runs of an upload
Column(e, field) == [i \in 1..Len(e.runs) |-> e.runs[i][field]]

\* m is a median of the values: it is the midpoint of two positions i and j
\* (the same position when the count is odd) that split the other positions
\* into as many values at or below as values at or above
IsMedianOf(m, values) ==
    LET n == Len(values)
        odd == n % 2 = 1
    IN  \E i \in 1..n, j \in 1..n :
          /\ odd <=> (i = j)
          /\ values[i] <= values[j]
          /\ 2 * m = values[i] + values[j]
          /\ \E low \in SUBSET ((1..n) \ {i, j}) :
                /\ 2 * Cardinality(low) = n - Cardinality({i, j})
                /\ \A k \in low : values[k] <= values[i]
                /\ \A k \in ((1..n) \ {i, j}) \ low : values[k] >= values[j]

\* C15 (SpecAggregate): the average of every aggregate uploaded is the
\* median of the averages of its runs (60 for the averages 60, 62, 58), its
\* minimum is the least of the runs' minimums and its maximum the greatest
\* of the runs' maximums.
C15_AggregateFps ==
    \A e \in Uploaded :
        LET avgs == Column(e, "average")
            mins == Column(e, "minimum")
            maxs == Column(e, "maximum")
            n == Len(e.runs)
        IN  /\ n > 0
            /\ IsMedianOf(e.metrics.average, avgs)
            /\ avgs = <<60, 62, 58>> => e.metrics.average = 60
            /\ \E i \in 1..n : mins[i] = e.metrics.minimum
            /\ \A i \in 1..n : e.metrics.minimum <= mins[i]
            /\ \E i \in 1..n : maxs[i] = e.metrics.maximum
            /\ \A i \in 1..n : e.metrics.maximum >= maxs[i]

\* runs with the averages 60, 62 and 58 were aggregated to the average 60,
\* the minimum 35 and the maximum 90
C15_Witness ==
    \E e \in Uploaded :
        /\ Column(e, "average") = <<60, 62, 58>>
        /\ Column(e, "minimum") = <<35, 50, 40>>
        /\ Column(e, "maximum") = <<90, 75, 70>>
        /\ e.metrics.average = 60
        /\ e.metrics.minimum = 35
        /\ e.metrics.maximum = 90

\* C16 (SpecAggregate): the stutter rating and the pacing rating of every
\* aggregate uploaded are each the most severe rating among its runs on the
\* scale excellent < good < moderate < poor.
C16_WorstRating ==
    \A e \in Uploaded :
        \A field \in {"stutter_rating", "consistency_rating"} :
            LET ratings == Column(e, field) IN
            /\ \E i \in 1..Len(ratings) : ratings[i] = e.metrics[field]
            /\ \A i \in 1..Len(ratings) :
                  Severity(ratings[i]) <= Severity(e.metrics[field])

\* an aggregate of runs whose first is the best in stutter and whose last is
\* the worst in pacing
C16_Witness ==
    \E e \in Uploaded :
        /\ Len(e.runs) = 3
        /\ Column(e, "stutter_rating") = <<"excellent", "moderate", "good">>
        /\ Column(e, "consistency_rating") = <<"poor", "excellent", "moderate">>
        /\ e.metrics.stutter_rating = "moderate"
        /\ e.metrics.consistency_rating = "poor"

(***************************************************************************)
(* SpecUpload: the upload command (cli.py:1249-1380) and _prompt_upload,   *)
(* which benchmark calls after a run was saved (cli.py:699-766).  `input`  *)
(* is how the command was called, `todo` the games still to upload.        *)
(***************************************************************************)
\* upload --all | upload <app_id> | upload <name> | upload
UploadArgs == {"all", "app_id", "name", "none"}
\* what typer.prompt("Upload? [Y/n]") gives: an answer, or it raises
UploadAnswers == {"y", "", "n", "raise"}

\* `if not is_logged_in():` and `if not check_api_status():`
check_failed_never(ok) == FALSE
check_failed(ok) == ~ok

\* storage.get_all_games(): the games that have data
get_all_games == {g \in Games : DOMAIN groups[g] # {}}

EvLoggedIn(r) == [op |-> "is_logged_in", result |-> r]
EvApiStatus(r) == [op |-> "check_api_status", result |-> r]

\* the runs a game may have when the command starts
SavedGroups ==
    LET m1 == [average |-> 58, minimum |-> 40, maximum |-> 70,
               stutter_rating |-> "good", consistency_rating |-> "moderate"]
        m2 == [average |-> 62, minimum |-> 50, maximum |-> 75,
               stutter_rating |-> "poor", consistency_rating |-> "good"]
    IN  { EmptyMap,
          ("1920x1080" :> <<m1>>),
          ("1920x1080" :> <<m1, m2>>) @@ ("2560x1440" :> <<>>),
          ("1920x1080" :> <<m2>>) @@ ("2560x1440" :> <<m1>>) }

UploadInit ==
    /\ cmd \in {"upload", "prompt_upload"}
    /\ pc = "u_login"
    /\ input \in UploadArgs
    /\ cmd = "prompt_upload" => input = "none"
    /\ target \in Games
    /\ curFp = "fpA"
    /\ fpSaved = [g \in Games |-> NoFp]
    /\ groups \in [Games -> SavedGroups]
    /\ cmd = "prompt_upload" => DOMAIN groups[target] # {}
    /\ archives = [g \in Games |-> <<>>]
    /\ exitCode = 0 /\ pending = "none" /\ cancelled = FALSE
    /\ IdleTool /\ IdleDir /\ IdleRec /\ IdleBench
    /\ events = <<>>

UploadFrame ==
    UNCHANGED <<storeVars, constVars, pending, cancelled, toolVars, dirVars,
                size1, visiting, new_logs, procVars, sessVars, benchVars>>

\* if not is_logged_in(): upload exits with 1, _prompt_upload returns
UploadCheckLogin(ok) ==
    /\ pc = "u_login"
    /\ events' = Append(events, EvLoggedIn(ok))
    /\ IF check_failed(ok)
       THEN IF cmd = "upload" THEN Exit(1) ELSE Exit(0)
       ELSE IF cmd = "upload" THEN Goto("u_api") ELSE Goto("u_prompt")
    /\ UNCHANGED todo /\ UploadFrame

\* _prompt_upload: choice = typer.prompt(...); except: return
UploadPrompt(answer) ==
    /\ pc = "u_prompt"
    /\ IF answer \in {"j", "y", "ja", "yes", ""}
       THEN Goto("u_api")
       ELSE Exit(0)
    /\ UNCHANGED <<events, todo>> /\ UploadFrame

\* if not check_api_status(): upload exits with 1, _prompt_upload returns
UploadCheckApi(ok) ==
    /\ pc = "u_api"
    /\ events' = Append(events, EvApiStatus(ok))
    /\ IF check_failed(ok)
       THEN IF cmd = "upload" THEN Exit(1) ELSE Exit(0)
       ELSE IF cmd = "upload" THEN Goto("u_games") ELSE Goto("u_one")
    /\ UNCHANGED todo /\ UploadFrame

\* upload: games_to_upload
UploadSelectGames ==
    /\ pc = "u_games"
    /\ CASE input = "all" -> todo' = get_all_games /\ Goto("u_loop")
         [] input = "app_id" -> todo' = {target} /\ Goto("u_loop")
         [] input = "name" ->
                IF target \in get_all_games
                THEN todo' = {target} /\ Goto("u_loop")
                ELSE todo' = {} /\ Exit(1)
         [] input = "none" -> todo' = {} /\ Exit(0)
    /\ UNCHANGED events /\ UploadFrame

\* upload: for game_id in games_to_upload: a game without data is skipped;
\* for resolution, runs in resolutions.items(): an empty list is skipped,
\* the others are aggregated and uploaded
UploadGame(g) ==
    /\ pc = "u_loop"
    /\ g \in todo
    /\ todo' = todo \ {g}
    /\ LET resolutions == get_all_resolutions(g)
           RECURSIVE Uploads(_)
           Uploads(rs) ==
               IF rs = {} THEN <<>>
               ELSE LET r == CHOOSE x \in rs : TRUE
                    IN  <<EvUpload(g, r, resolutions[r],
                                   aggregate_runs(resolutions[r]))>>
                            \o Uploads(rs \ {r})
       IN  events' = events \o
               Uploads({r \in DOMAIN resolutions : resolutions[r] # <<>>})
    /\ UNCHANGED <<pc, exitCode>> /\ UploadFrame

\* upload: the summary after the loop
UploadSummary ==
    /\ pc = "u_loop"
    /\ todo = {}
    /\ Exit(0)
    /\ UNCHANGED <<events, todo>> /\ UploadFrame

\* _prompt_upload: upload_benchmark(...) of the run just saved
UploadOne ==
    /\ pc = "u_one"
    /\ LET res == CHOOSE r \in DOMAIN groups[target] : TRUE
           runs == groups[target][res]
       IN  events' = Append(events,
               EvUpload(target, res, runs, aggregate_runs(runs)))
    /\ Exit(0)
    /\ UNCHANGED todo /\ UploadFrame

UploadNext ==
    \/ \E ok \in BOOLEAN : UploadCheckLogin(ok)
    \/ \E answer \in UploadAnswers : UploadPrompt(answer)
    \/ \E ok \in BOOLEAN : UploadCheckApi(ok)
    \/ UploadSelectGames
    \/ \E g \in Games : UploadGame(g)
    \/ UploadSummary
    \/ UploadOne

SpecUpload == UploadInit /\ [][UploadNext]_vars

\* C21 (SpecUpload): every upload_benchmark call comes after an is_logged_in
\* that returned true and, after that, a check_api_status that returned
\* true; once one of the two has returned false there is no upload, and the
\* upload command ends with exit code 1.
C21_UploadGated ==
    /\ \A i \in Ev : IsEv(i, "upload") =>
          \E j \in 1..(i - 1), k \in 1..(i - 1) :
              /\ j < k
              /\ events[j] = EvLoggedIn(TRUE)
              /\ events[k] = EvApiStatus(TRUE)
    /\ (\E i \in Ev : events[i] \in {EvLoggedIn(FALSE), EvApiStatus(FALSE)}) =>
          /\ \A i \in Ev : ~IsEv(i, "upload")
          /\ cmd = "upload" => (pc = "exited" /\ exitCode = 1)

\* the upload command has uploaded the aggregates of two games after both
\* checks passed
C21_Witness ==
    /\ cmd = "upload" /\ pc = "exited" /\ exitCode = 0
    /\ events[1] = EvLoggedIn(TRUE) /\ events[2] = EvApiStatus(TRUE)
    /\ \E i \in Ev, j \in Ev :
          /\ IsEv(i, "upload") /\ events[i].game = "g1"
          /\ IsEv(j, "upload") /\ events[j].game = "g2"

(***************************************************************************)
(* SpecLaunch: the functions of steam/launch_options.py called in any      *)
(* order for the two games, on each of the files.  launchOpts holds        *)
(* localconfig.vdf and its .bak copy, `events` the calls made with the     *)
(* content of localconfig.vdf before and after each.                       *)
(***************************************************************************)
MaxEdits == 3

EvLaunchOptions(op, app_id, options, was, now) ==
    [op |-> op, app |-> app_id, options |-> options, was |-> was, now |-> now]

LaunchInit ==
    /\ cmd = "launch_options" /\ pc = "lo"
    /\ \E vdf \in VdfFiles, hasBak \in BOOLEAN :
          launchOpts = [vdf |-> vdf, hasBak |-> hasBak,
                        bak |-> IF hasBak THEN vdf ELSE <<>>]
    /\ mangoCfg = "orig" /\ restoreLog = <<>>
    /\ fpSaved = [g \in Games |-> NoFp]
    /\ groups = [g \in Games |-> EmptyMap]
    /\ archives = [g \in Games |-> <<>>]
    /\ curFp = "fpA" /\ target = "g1" /\ input = "none"
    /\ exitCode = 0 /\ pending = "none" /\ cancelled = FALSE
    /\ IdleDir /\ IdleRec /\ IdleBench
    /\ events = <<>>

LaunchFrame ==
    UNCHANGED <<storeVars, cliVars, mangoCfg, restoreLog, dirVars, recVars,
                benchVars>>

\* set_launch_options(app_id, options)
LaunchSet(app_id, options) ==
    /\ Len(events) < MaxEdits
    /\ launchOpts' = set_launch_options(launchOpts, app_id, options, TRUE)
    /\ events' = Append(events, EvLaunchOptions("set", app_id, options,
                                                launchOpts.vdf, launchOpts'.vdf))
    /\ LaunchFrame

\* set_benchmark_launch_options(app_id)
LaunchSetBenchmark(app_id) ==
    /\ Len(events) < MaxEdits
    /\ launchOpts' = set_launch_options(launchOpts, app_id, BenchmarkOptions, TRUE)
    /\ events' = Append(events,
          EvLaunchOptions("set_benchmark", app_id, BenchmarkOptions,
                          launchOpts.vdf, launchOpts'.vdf))
    /\ LaunchFrame

\* clear_launch_options(app_id)
LaunchClear(app_id) ==
    /\ Len(events) < MaxEdits
    /\ launchOpts' = clear_launch_options(launchOpts, app_id)
    /\ events' = Append(events, EvLaunchOptions("clear", app_id, "",
                                                launchOpts.vdf, launchOpts'.vdf))
    /\ LaunchFrame

\* restore_launch_options(app_id)
LaunchRestore(app_id) ==
    /\ Len(events) < MaxEdits
    /\ launchOpts' = restore_launch_options(launchOpts, app_id)
    /\ events' = Append(events, EvLaunchOptions("restore", app_id, "",
                                                launchOpts.vdf, launchOpts'.vdf))
    /\ LaunchFrame

LaunchNext ==
    \E app_id \in Games :
        \/ LaunchSet(app_id, "-fullscreen")
        \/ LaunchSetBenchmark(app_id)
        \/ LaunchClear(app_id)
        \/ LaunchRestore(app_id)

SpecLaunch == LaunchInit /\ [][LaunchNext]_vars

\* the launch options of the app in a content, as get_launch_options reads them
OptionsIn(content, app_id) ==
    get_launch_options([vdf |-> content], app_id)
\* the call modifies with a backup
SetsWithBackup(e) == e.op \in {"set", "set_benchmark", "clear"}

C27_BackupHoldsFirstState ==
    \A i \in Ev, j \in Ev :
        ( /\ i < j
          /\ events[j].op = "restore"
          /\ \A k \in i..(j - 1) : SetsWithBackup(events[k])
          /\ \A k \in i..j : events[k].app = events[i].app )
        => LET v == OptionsIn(events[i].was, events[i].app)
               after == OptionsIn(events[j].now, events[i].app)
           IN  IF v = NoKey THEN after \in {"", NoKey} ELSE after = v

\* C28 (SpecLaunch): a second restore_launch_options in a row for an app
\* leaves the launch options the first has left.
C28_RestoreIdempotent ==
    \A i \in 1..(Len(events) - 1) :
        ( /\ events[i].op = "restore"
          /\ events[i + 1].op = "restore"
          /\ events[i + 1].app = events[i].app )
        => OptionsIn(events[i + 1].now, events[i].app)
              = OptionsIn(events[i].now, events[i].app)

\* C29 (SpecLaunch): after every set_launch_options(app, x), which returns
\* True whenever it returns, get_launch_options(app) gives x.
C29_SetThenGet ==
    \A i \in Ev :
        SetsWithBackup(events[i]) =>
            OptionsIn(events[i].now, events[i].app) = events[i].options

\* the entry of the app in a content: from its name to the brace that closes
\* its block; empty when the app has no entry
EntryOf(content, app_id) ==
    LET n == Len(content)
        Least(S) == CHOOSE i \in S : \A j \in S : i <= j
        Count(i, j, t) == Cardinality({x \in i..j : content[x].t = t})
        Heads == {i \in 1..(n - 1) :
                    content[i] = Str(app_id) /\ content[i + 1] = Open}
        Tails(i) == {j \in (i + 2)..n :
                       /\ content[j].t = "}"
                       /\ Count(i, j, "{") = Count(i, j, "}")}
    IN  IF Heads = {} \/ Tails(Least(Heads)) = {} THEN <<>>
        ELSE SubSeq(content, Least(Heads), Least(Tails(Least(Heads))))

\* C30 (SpecLaunch): a set_launch_options(app, x) leaves the entry of every
\* other app as it was, with its launch options and its other settings and
\* without an entry of another app inside, and leaves the launch options
\* read for every other app as they were.
C30_OtherAppsUnchanged ==
    \A i \in Ev :
        SetsWithBackup(events[i]) =>
            \A other \in Games \ {events[i].app} :
                /\ EntryOf(events[i].now, other) = EntryOf(events[i].was, other)
                /\ OptionsIn(events[i].now, other)
                      = OptionsIn(events[i].was, other)

(***************************************************************************)
(* SpecFinder: one call of GameFinder.find (games/game_finder.py).         *)
(* `input` holds the query, the local library, what the Steam Store        *)
(* answers and the `interactive` argument; `events` the searches made, the *)
(* selection entered and the value returned.  Similarities are in percent. *)
(***************************************************************************)
None == [source |-> "None", steam_app_id |-> 0]
\* GameInfo.from_steam_local, GameInfo.from_steam_store, GameInfo.manual
GameInfo(source, steam_app_id) == [source |-> source, steam_app_id |-> steam_app_id]

\* how the name of an installed game relates to the query, and its
\* similarity: the same name, the query is a part of the name, or neither
LocalGames ==
    { [app_id |-> 10, name |-> "equal", similarity |-> 100],
      [app_id |-> 20, name |-> "contains", similarity |-> 80],
      [app_id |-> 30, name |-> "contains", similarity |-> 40],
      [app_id |-> 40, name |-> "other", similarity |-> 10] }
MaxLocal == 2
\* what get_multiple_matches returns: the matches with their similarity
StoreAnswers ==
    { <<>>,
      <<[appid |-> 50, similarity |-> 97]>>,
      <<[appid |-> 50, similarity |-> 80]>>,
      <<[appid |-> 50, similarity |-> 97], [appid |-> 60, similarity |-> 80]>>,
      <<[appid |-> 50, similarity |-> 80], [appid |-> 60, similarity |-> 70]>> }
\* what is entered at "Auswahl [1]: ": a number, nothing, another text, or
\* Ctrl-C
Selections == {"", "0", "1", "2", "7", "abc", "KeyboardInterrupt"}

\* _search_local(query)
search_local(local_games) ==
    LET n == Len(local_games)
        Equal == {i \in 1..n : local_games[i].name = "equal"}
        Partial == {i \in 1..n : local_games[i].name = "contains"}
        \* the first of the partial matches with the greatest score
        best == CHOOSE i \in Partial :
                    \A j \in Partial :
                        \/ local_games[j].similarity < local_games[i].similarity
                        \/ (local_games[j].similarity = local_games[i].similarity
                            /\ i <= j)
        \* an exact match met in the loop before the end returns at once
        first == CHOOSE i \in Equal : \A j \in Equal : i <= j
    IN  IF Equal # {} THEN GameInfo("steam_local", local_games[first].app_id)
        ELSE IF Partial # {} /\ local_games[best].similarity >= 60
             THEN GameInfo("steam_local", local_games[best].app_id)
             ELSE None

\* _search_steam_store(query)
search_steam_store(matches) ==
    [i \in 1..Len(matches) |-> GameInfo("steam_store", matches[i].appid)]

\* _interactive_select(games, query) when `choice` is entered
interactive_select(games, choice) ==
    IF choice = "KeyboardInterrupt" \/ choice = "abc"
    THEN IF games # <<>> THEN games[1] ELSE None
    ELSE LET choice_idx == CASE choice = "" -> 1
                             [] choice = "0" -> 0
                             [] choice = "1" -> 1
                             [] choice = "2" -> 2
                             [] choice = "7" -> 7
         IN  IF choice_idx = 0 THEN GameInfo("manual", 0)
             ELSE IF 1 <= choice_idx /\ choice_idx <= Len(games)
                  THEN games[choice_idx]
                  ELSE games[1]

EvSearch(where, result) == [op |-> "search", where |-> where, result |-> result]
EvSelect(choice) == [op |-> "select", choice |-> choice]
EvReturn(value) == [op |-> "return", value |-> value]

FinderInit ==
    /\ cmd = "find" /\ pc = "f_start"
    /\ input \in [query : {"number", "name"},
                  local_games : UNION {[1..n -> LocalGames] : n \in 0..MaxLocal},
                  store : StoreAnswers,
                  interactive : BOOLEAN]
    /\ input.query = "number" => (input.store = <<>> /\ input.interactive)
    /\ curFp = "fpA" /\ target = "g1"
    /\ exitCode = 0 /\ pending = "none" /\ cancelled = FALSE
    /\ fpSaved = [g \in Games |-> NoFp]
    /\ groups = [g \in Games |-> EmptyMap]
    /\ archives = [g \in Games |-> <<>>]
    /\ IdleTool /\ IdleDir /\ IdleRec /\ IdleBench
    /\ events = <<>>

FinderFrame ==
    UNCHANGED <<storeVars, constVars, exitCode, pending, cancelled, toolVars,
                dirVars, recVars, benchVars>>

\* try: app_id = int(query); return self._find_by_app_id(app_id)
FindByAppId ==
    /\ pc = "f_start"
    /\ input.query = "number"
    /\ events' = Append(events,
          EvReturn(IF \E i \in 1..Len(input.local_games) :
                         input.local_games[i].app_id = 10
                   THEN GameInfo("steam_local", 10)
                   ELSE GameInfo("steam_store", 10)))
    /\ pc' = "f_done"
    /\ FinderFrame

\* local_result = self._search_local(query); if local_result: return
FindLocal ==
    /\ pc = "f_start"
    /\ input.query = "name"
    /\ LET local_result == search_local(input.local_games)
       IN  IF local_result # None
           THEN /\ events' = events \o <<EvSearch("local", <<local_result>>),
                                         EvReturn(local_result)>>
                /\ pc' = "f_done"
           ELSE /\ events' = Append(events, EvSearch("local", <<>>))
                /\ pc' = "f_store"
    /\ FinderFrame

\* steam_results = self._search_steam_store(query) and what follows, up to
\* the return or the selection menu
FindStore ==
    /\ pc = "f_store"
    /\ LET steam_results == search_steam_store(input.store)
           searched == Append(events, EvSearch("store", steam_results))
       IN  IF steam_results # <<>>
           THEN IF input.store[1].similarity >= 95
                THEN /\ events' = Append(searched, EvReturn(steam_results[1]))
                     /\ pc' = "f_done"
                ELSE IF input.interactive /\ Len(steam_results) > 1
                     THEN events' = searched /\ pc' = "f_select"
                     ELSE /\ events' = Append(searched, EvReturn(steam_results[1]))
                          /\ pc' = "f_done"
           ELSE /\ events' = Append(searched, EvReturn(GameInfo("manual", 0)))
                /\ pc' = "f_done"
    /\ FinderFrame

\* return self._interactive_select(steam_results, query)
FindSelect(choice) ==
    /\ pc = "f_select"
    /\ events' = events \o
          <<EvSelect(choice),
            EvReturn(interactive_select(search_steam_store(input.store), choice))>>
    /\ pc' = "f_done"
    /\ FinderFrame

FinderNext ==
    \/ FindByAppId
    \/ FindLocal
    \/ FindStore
    \/ \E choice \in Selections : FindSelect(choice)

SpecFinder == FinderInit /\ [][FinderNext]_vars

\* a search of the given source was made and returned nothing
SearchedInVain(where) == \E i \in Ev : events[i] = EvSearch(where, <<>>)

\* C23 (SpecFinder): for a name, the Steam Store is searched only after the
\* local search returned nothing, and a manual entry without Steam App ID is
\* returned only after both searches returned nothing.
C23_FallbackChain ==
    input.query = "name" =>
        /\ \A i \in Ev :
              (IsEv(i, "search") /\ events[i].where = "store") =>
                  \E j \in 1..(i - 1) : events[j] = EvSearch("local", <<>>)
        /\ \A i \in Ev :
              (IsEv(i, "return") /\ events[i].value.source = "manual") =>
                  SearchedInVain("local") /\ SearchedInVain("store")

\* C24 (SpecFinder): find returns a GameInfo when a search found the game,
\* and None when the user cancelled the selection.
C24_NoneWhenCancelled ==
    \A i \in Ev :
        IsEv(i, "return") =>
            /\ (\E j \in 1..(i - 1) :
                    IsEv(j, "search") /\ events[j].result # <<>>
                    /\ ~\E k \in Ev : IsEv(k, "select"))
               => events[i].value # None
            /\ (\E j \in 1..(i - 1) : events[j] = EvSelect("KeyboardInterrupt"))
               => events[i].value = None

(***************************************************************************)
(* benchmark: the resolution prompt (checked under Spec)                   *)
(***************************************************************************)
\* the calls benchmark makes after the prompt
AfterPrompt == {"check", "archive", "savefp", "saverun", "report", "raise"}

\* C25 (Spec): when 0 is entered at the resolution prompt of benchmark, the
\* command ends with exit status 0, it has called none of check_fingerprint,
\* archive_old_data, save_fingerprint and save_run and has generated no
\* report; the store is as it was when the command started, for benchmark
\* changes the store only in a step that logs a call of archive_old_data,
\* save_fingerprint or save_run.
C25_CancelLeavesStore ==
    [][cmd = "benchmark" =>
          /\ input' = "0" =>
                /\ pc' = "exited" /\ exitCode' = 0
                /\ resolution' = "none"
                /\ \A i \in 1..Len(events') : events'[i].op \notin AfterPrompt
                /\ UNCHANGED storeVars
          /\ storeVars' # storeVars =>
                /\ Len(events') = Len(events) + 1
                /\ events'[Len(events')].op \in {"archive", "savefp", "saverun"}]_vars

\* 0 was entered after a run that produced a measured result with metrics
C25_Witness ==
    /\ cmd = "benchmark" /\ input = "0" /\ pc = "exited"
    /\ \E k \in 1..Len(results) : Storable(results[k])

(***************************************************************************)
(* record, record_manual: which traces reach process_log (under Spec)      *)
(***************************************************************************)
\* the calls of process_log for trace f: each begins with the analysis
ProcessLogCalls(f) == {i \in Ev : IsEv(i, "analyze") /\ events[i].log = f}

\* C26 (Spec): in a session of record or record_manual no trace is passed
\* to process_log more than once, whatever the analysis or the user's choice
\* gives, and a trace that lay in the directory when the session started is
\* never passed to it.
C26_ProcessedOnce ==
    /\ [](Recording => \A f \in AllFiles : Cardinality(ProcessLogCalls(f)) <= 1)
    /\ \A f \in AllFiles :
          (Recording /\ f \in files) => [](ProcessLogCalls(f) = {})

\* an older trace lay in the directory; a new trace was analyzed and
\* discarded, or its analysis failed, and get_new_logs was entered again
C26_Witness ==
    /\ Recording
    /\ 1 \in processed_logs /\ ProcessLogCalls(1) = {}
    /\ \E f \in AllFiles : ProcessLogCalls(f) # {}
    /\ \A i \in Ev : ~IsEv(i, "saverun")
    /\ pc = "glob" /\ todo = {}

====
